---- MODULE Spec2Model ----
(***************************************************************************)
(* The rule subsystem of openpoke (server/services/rules): the rule model, *)
(* the template parser, the JSON-backed store and the enforcement engine.  *)
(*                                                                         *)
(* A Python str is a sequence of one-character strings, so that strip,     *)
(* lower, substring tests and regular-expression substitutions are         *)
(* computed and not assumed.  A Python value is a record [t, v] whose tag  *)
(* t is its type.  A dict is a function from its keys.                     *)
(***************************************************************************)
EXTENDS Integers, Sequences, FiniteSets, TLC

VARIABLES
    rules,      \* the rule list handed to the engine
    calls,      \* the engine invocations made so far, oldest first
    text,       \* the user text handed to the parser
    parsed,     \* what parse_user_rule returned for it
    prompt,     \* what build_prompt_instructions returned
    listed,     \* the calls of list_rules so far, with what each gave back
    mem,        \* RuleStore._rules: the rules in the order of the dict
    disk,       \* the file at RuleStore.path
    clock,      \* the number of readings of the clock so far
    ops,        \* the number of store calls begun
    fresh,      \* the _rules of a RuleStore constructed later on the same path
    pc,         \* per thread: where its store call stands
    op,         \* per thread: the store call it is in
    iter_len,   \* per thread: the size of _rules when save() began to iterate it
    snap,       \* per thread: the payload save() serialized
    tmp,        \* per thread: the temporary file of _atomic_write_text
    dest_before,\* per thread: the file at path when the call began
    before,     \* per thread: _rules when the call began, and the call before it with what it gave back
    faults,     \* per thread: the steps of the write that failed
    ret         \* per thread: what the call gave back

engineVars == <<rules, calls, text, parsed, prompt, listed>>
storeVars == <<mem, disk, clock, ops, fresh, pc, op, iter_len, snap, tmp, dest_before, before, faults, ret>>
vars == <<engineVars, storeVars>>

(***************************************************************************)
(* Python strings                                                          *)
(***************************************************************************)
WhitespaceChars == {" ", "\t", "\n"}

LowerLetters ==
    {"a","b","c","d","e","f","g","h","i","j","k","l","m",
     "n","o","p","q","r","s","t","u","v","w","x","y","z"}

UpperLetters ==
    {"A","B","C","D","E","F","G","H","I","J","K","L","M",
     "N","O","P","Q","R","S","T","U","V","W","X","Y","Z"}

Digits == {"0","1","2","3","4","5","6","7","8","9"}

\* \w of Python's re on str
WordChars == LowerLetters \cup UpperLetters \cup Digits \cup {"_"}

LowerOf ==
    [c \in UpperLetters |->
        CASE c = "A" -> "a" [] c = "B" -> "b" [] c = "C" -> "c" [] c = "D" -> "d"
          [] c = "E" -> "e" [] c = "F" -> "f" [] c = "G" -> "g" [] c = "H" -> "h"
          [] c = "I" -> "i" [] c = "J" -> "j" [] c = "K" -> "k" [] c = "L" -> "l"
          [] c = "M" -> "m" [] c = "N" -> "n" [] c = "O" -> "o" [] c = "P" -> "p"
          [] c = "Q" -> "q" [] c = "R" -> "r" [] c = "S" -> "s" [] c = "T" -> "t"
          [] c = "U" -> "u" [] c = "V" -> "v" [] c = "W" -> "w" [] c = "X" -> "x"
          [] c = "Y" -> "y" [] c = "Z" -> "z"]

\* str.lower()
Lower(s) == [i \in 1..Len(s) |-> IF s[i] \in UpperLetters THEN LowerOf[s[i]] ELSE s[i]]

RECURSIVE LStrip(_)
LStrip(s) == IF s # <<>> /\ Head(s) \in WhitespaceChars THEN LStrip(Tail(s)) ELSE s

RECURSIVE RStrip(_)
RStrip(s) ==
    IF s # <<>> /\ s[Len(s)] \in WhitespaceChars THEN RStrip(SubSeq(s, 1, Len(s) - 1)) ELSE s

\* str.strip()
Strip(s) == RStrip(LStrip(s))

\* str.startswith(p)
StartsWith(s, p) == Len(p) <= Len(s) /\ SubSeq(s, 1, Len(p)) = p

\* p in s
Contains(s, p) == \E i \in 1..(Len(s) - Len(p) + 1) : SubSeq(s, i, i + Len(p) - 1) = p

\* str.replace(old, new), old non-empty: leftmost matches, left to right
RECURSIVE Replace(_, _, _)
Replace(s, old, new) ==
    IF s = <<>> THEN <<>>
    ELSE IF StartsWith(s, old) THEN new \o Replace(SubSeq(s, Len(old) + 1, Len(s)), old, new)
    ELSE <<Head(s)>> \o Replace(Tail(s), old, new)

\* re.sub(<one or more characters of class C>, " ", s)
RECURSIVE SubRuns(_, _, _)
SubRuns(s, InClass(_), inRun) ==
    IF s = <<>> THEN <<>>
    ELSE IF InClass(Head(s))
         THEN (IF inRun THEN <<>> ELSE <<" ">>) \o SubRuns(Tail(s), InClass, TRUE)
         ELSE <<Head(s)>> \o SubRuns(Tail(s), InClass, FALSE)

\* "sep".join(parts)
RECURSIVE Join(_, _)
Join(sep, parts) ==
    IF parts = <<>> THEN <<>>
    ELSE IF Len(parts) = 1 THEN parts[1]
    ELSE parts[1] \o sep \o Join(sep, Tail(parts))

\* The characters in code-point order, as far as the model uses them.
CodePointOrder ==
    <<"\t", "\n", " ", "!", "'", ",", "-", ".",
      "0", "1", "2", "3", "4", "5", "6", "7", "8", "9", ":", "?", "@",
      "A", "B", "C", "D", "E", "F", "G", "H", "I", "J", "K", "L", "M",
      "N", "O", "P", "Q", "R", "S", "T", "U", "V", "W", "X", "Y", "Z", "_",
      "a", "b", "c", "d", "e", "f", "g", "h", "i", "j", "k", "l", "m",
      "n", "o", "p", "q", "r", "s", "t", "u", "v", "w", "x", "y", "z", "RSQUO">>

\* U+2019, the typographic apostrophe
RSQUO == "RSQUO"

Ord(c) == CHOOSE i \in 1..Len(CodePointOrder) : CodePointOrder[i] = c

\* a < b on str
RECURSIVE StrLess(_, _)
StrLess(a, b) ==
    IF b = <<>> THEN FALSE
    ELSE IF a = <<>> THEN TRUE
    ELSE IF Head(a) = Head(b) THEN StrLess(Tail(a), Tail(b))
    ELSE Ord(Head(a)) < Ord(Head(b))

\* sorted(S), S a set of str
RECURSIVE Sorted(_)
Sorted(S) ==
    IF S = {} THEN <<>>
    ELSE LET least == CHOOSE x \in S : \A y \in S \ {x} : StrLess(x, y)
         IN  <<least>> \o Sorted(S \ {least})

(***************************************************************************)
(* Python values                                                           *)
(***************************************************************************)
None == [t |-> "NoneType", v |-> 0]
PyStr(s) == [t |-> "str", v |-> s]
PyBool(b) == [t |-> "bool", v |-> b]
PyInt(n) == [t |-> "int", v |-> n]
PyFloat(n) == [t |-> "float", v |-> n]       \* the float n.0
PyList(xs) == [t |-> "list", v |-> xs]
PyDict(d) == [t |-> "dict", v |-> d]

IsStr(x) == x.t = "str"
\* isinstance(x, int): bool is a subclass of int
IsInt(x) == x.t \in {"int", "bool"}

\* the number an int or a bool is
IntOf(x) == IF x.t = "bool" THEN (IF x.v THEN 1 ELSE 0) ELSE x.v

\* bool(x)
Truthy(x) ==
    CASE x.t = "NoneType" -> FALSE
      [] x.t = "bool" -> x.v
      [] x.t \in {"int", "float"} -> x.v # 0
      [] x.t \in {"str", "list"} -> x.v # <<>>
      [] x.t = "dict" -> DOMAIN x.v # {}

\* a or b
Or(a, b) == IF Truthy(a) THEN a ELSE b

EmptyDict == [k \in {} |-> None]

\* d.get(k)
Get(d, k) == IF k \in DOMAIN d THEN d[k] ELSE None

\* d.get(k, default)
GetOr(d, k, default) == IF k \in DOMAIN d THEN d[k] ELSE default

(***************************************************************************)
(* models.py                                                               *)
(***************************************************************************)
\* The members of RuleScope and of RuleActionType, named by their values: both are
\* str enums, and a member compares equal to its value.
RuleScope == {"global", "chat", "email"}
GLOBAL == "global"
CHAT == "chat"
EMAIL == "email"

RuleActionType ==
    {"prompt_inject", "block_tool", "confirm_tool", "boost_agent", "exclude_agent", "force_agent"}
PROMPT_INJECT == "prompt_inject"
BLOCK_TOOL == "block_tool"
CONFIRM_TOOL == "confirm_tool"

\* RuleAction(type, payload).  cls is the class of the Python object holding the
\* action: "RuleAction" has the attributes type and payload, a "dict" has keys only.
RuleAction(type, payload) == [cls |-> "RuleAction", type |-> type, payload |-> payload]

Rule(id, enabled, scope, raw_text, actions, created_at, updated_at) ==
    [id |-> id, enabled |-> enabled, scope |-> scope, raw_text |-> raw_text,
     actions |-> actions, created_at |-> created_at, updated_at |-> updated_at]

ToolDecision(allowed, requires_confirmation, block_reason, confirm_reason) ==
    [allowed |-> allowed, requires_confirmation |-> requires_confirmation,
     block_reason |-> block_reason, confirm_reason |-> confirm_reason]

allow == ToolDecision(TRUE, FALSE, None, None)
block(reason) == ToolDecision(FALSE, FALSE, reason, None)
require_confirm(reason) == ToolDecision(TRUE, TRUE, None, reason)

\* What a call gives back: a value, or the exception it raised.
Return(x) == [raised |-> "", value |-> x]
Raise(exc) == [raised |-> exc, value |-> None]

(***************************************************************************)
(* engine.py                                                               *)
(***************************************************************************)
\* The sequence of the f(x), x in xs, each a sequence, concatenated in order.
RECURSIVE FlatMap(_, _)
FlatMap(f(_), xs) == IF xs = <<>> THEN <<>> ELSE f(Head(xs)) \o FlatMap(f, Tail(xs))

_iter_actions(rule) == rule.actions

_rule_enabled(rule) == rule.enabled

\* A variant without the wildcard.
_scope_matches_Exact(rule_scope, desired) == rule_scope = desired

_scope_matches(rule_scope, desired) == rule_scope = GLOBAL \/ rule_scope = desired

filter_rules_for_scope(rs, scope) ==
    SelectSeq(rs, LAMBDA r : _rule_enabled(r) /\ _scope_matches(r.scope, scope))

\* Reading a.type or a.payload of an action that is a plain dict raises
\* AttributeError; the engine reads them of every action of every effective rule.
HasAttributes(rs, scope) ==
    \A i \in 1..Len(rs) :
        (_rule_enabled(rs[i]) /\ _scope_matches(rs[i].scope, scope))
            => \A j \in 1..Len(rs[i].actions) : rs[i].actions[j].cls = "RuleAction"

FALLBACK_MAX_LEN == 200

PROMPT_HEADER == <<"U","S","E","R"," ","R","U","L","E","S"," ","(","m","u","s","t"," ","f","o","l","l","o","w",")",":","\n">>

\* A variant whose fallback does not look for tool actions.
PromptLines_NoToolTest(r) ==
    LET InjectedOf(a) ==
            LET txt == GetOr(a.payload, "text", PyStr(<<>>))
            IN  IF a.type = PROMPT_INJECT /\ IsStr(txt) /\ Strip(txt.v) # <<>>
                THEN <<Strip(txt.v)>> ELSE <<>>
        injected == FlatMap(InjectedOf, _iter_actions(r))
        raw == Strip(r.raw_text)
    IN  IF injected # <<>> THEN injected
        ELSE IF raw # <<>> /\ Len(raw) <= FALLBACK_MAX_LEN THEN <<raw>>
        ELSE <<>>

\* The lines one effective rule contributes (engine.py 61-83).
PromptLines(r) ==
    LET InjectedOf(a) ==
            LET txt == GetOr(a.payload, "text", PyStr(<<>>))
            IN  IF a.type = PROMPT_INJECT /\ IsStr(txt) /\ Strip(txt.v) # <<>>
                THEN <<Strip(txt.v)>> ELSE <<>>
        injected == FlatMap(InjectedOf, _iter_actions(r))
        raw == Strip(r.raw_text)
        has_tool_action ==
            \E j \in 1..Len(r.actions) : r.actions[j].type \in {BLOCK_TOOL, CONFIRM_TOOL}
    IN  IF injected # <<>> THEN injected
        ELSE IF raw # <<>> /\ Len(raw) <= FALLBACK_MAX_LEN /\ ~has_tool_action THEN <<raw>>
        ELSE <<>>

build_prompt_instructions(rs, scope) ==
    LET effective == filter_rules_for_scope(rs, scope)
        lines == FlatMap(PromptLines, effective)
        rendered == Join(<<"\n">>, [i \in 1..Len(lines) |-> <<"-"," ">> \o lines[i]])
    IN  IF lines = <<>> THEN <<>> ELSE PROMPT_HEADER \o rendered \o <<"\n">>

DEFAULT_BLOCK_REASON == <<"B","l","o","c","k","e","d"," ","b","y"," ","u","s","e","r"," ","r","u","l","e",".">>
DEFAULT_CONFIRM_REASON == <<"T","h","i","s"," ","a","c","t","i","o","n"," ","r","e","q","u","i","r","e","s"," ","c","o","n","f","i","r","m","a","t","i","o","n"," ","b","y"," ","u","s","e","r"," ","r","u","l","e",".">>

\* A variant that keeps a blank reason instead of falling back to the default.
ActionReason_KeepBlank(r, a) ==
    LET reason == Or(Or(Get(a.payload, "reason"), PyStr(r.raw_text)), PyStr(DEFAULT_BLOCK_REASON))
    IN  IF ~IsStr(reason) THEN DEFAULT_BLOCK_REASON ELSE reason.v

\* engine.py 112-115: the reason of one action of rule r, before the final strip
ActionReason(r, a) ==
    LET reason == Or(Or(Get(a.payload, "reason"), PyStr(r.raw_text)), PyStr(DEFAULT_BLOCK_REASON))
    IN  IF ~IsStr(reason) \/ Strip(reason.v) = <<>> THEN DEFAULT_BLOCK_REASON ELSE reason.v

\* engine.py 118-126 and 129-136: the tools one action names, in order
ActionTools(a) ==
    LET given == GetOr(a.payload, "tools", PyList(<<>>))
        tools == IF IsStr(given) THEN PyList(<<given>>) ELSE given
    IN  IF tools.t = "list"
        THEN SelectSeq(tools.v, LAMBDA t : IsStr(t) /\ Strip(t.v) # <<>>)
        ELSE <<>>

\* The (tool, reason) pairs that the actions of type `type` add, in the order of
\* the loops over the effective rules, their actions and their tools.
ToolEntries(effective, type) ==
    LET OfRule(r) ==
            LET OfAction(a) ==
                    IF a.type = type
                    THEN [i \in 1..Len(ActionTools(a)) |->
                            [tool |-> ActionTools(a)[i].v, reason |-> Strip(ActionReason(r, a))]]
                    ELSE <<>>
            IN  FlatMap(OfAction, _iter_actions(r))
    IN  FlatMap(OfRule, effective)

\* dict.setdefault over the entries: the first reason of each tool is kept
FirstReasons(entries) ==
    [t \in {entries[i].tool : i \in 1..Len(entries)} |->
        LET first == CHOOSE i \in 1..Len(entries) :
                        /\ entries[i].tool = t
                        /\ \A j \in 1..(i - 1) : entries[j].tool # t
        IN  entries[first].reason]

collect_effective_rules(rs, scope) ==
    LET effective == filter_rules_for_scope(rs, scope)
        blocked_reasons == FirstReasons(ToolEntries(effective, BLOCK_TOOL))
        confirm_reasons == FirstReasons(ToolEntries(effective, CONFIRM_TOOL))
    IN  [rules |-> effective,
         prompt_instructions |-> build_prompt_instructions(effective, scope),
         blocked_tools |-> DOMAIN blocked_reasons,
         confirm_tools |-> DOMAIN confirm_reasons,
         blocked_reasons |-> blocked_reasons,
         confirm_reasons |-> confirm_reasons]

CONFIRM_KEYS == <<"confirmed", "confirm", "user_confirmed", "approved", "allow">>
TRUTHY_TOKENS == {<<"t","r","u","e">>, <<"y","e","s">>, <<"y">>, <<"1">>}

\* A variant that forgets to lower-case a string flag.
_is_confirmed_CaseSensitive(tool_args) ==
    \E i \in 1..Len(CONFIRM_KEYS) :
        LET v == Get(tool_args, CONFIRM_KEYS[i])
        IN  \/ v.t = "bool" /\ v.v
            \/ IsStr(v) /\ Strip(v.v) \in TRUTHY_TOKENS
            \/ IsInt(v) /\ IntOf(v) = 1

_is_confirmed(tool_args) ==
    \E i \in 1..Len(CONFIRM_KEYS) :
        LET v == Get(tool_args, CONFIRM_KEYS[i])
        IN  \/ v.t = "bool" /\ v.v
            \/ IsStr(v) /\ Lower(Strip(v.v)) \in TRUTHY_TOKENS
            \/ IsInt(v) /\ IntOf(v) = 1

\* A variant that looks at the confirm set before the blocked set.
Decide_ConfirmFirst(rs, scope, tool_name, tool_args) ==
    LET args == IF Truthy(tool_args) THEN tool_args.v ELSE EmptyDict
        ctx == collect_effective_rules(rs, scope)
    IN  IF tool_name \in ctx.confirm_tools
        THEN (IF _is_confirmed(args) THEN allow
              ELSE require_confirm(PyStr(GetOr(ctx.confirm_reasons, tool_name, DEFAULT_CONFIRM_REASON))))
        ELSE IF tool_name \in ctx.blocked_tools
        THEN block(PyStr(GetOr(ctx.blocked_reasons, tool_name, DEFAULT_BLOCK_REASON)))
        ELSE allow

\* engine.py 183-194, for rules whose actions are RuleAction objects
Decide(rs, scope, tool_name, tool_args) ==
    LET args == IF Truthy(tool_args) THEN tool_args.v ELSE EmptyDict
        ctx == collect_effective_rules(rs, scope)
    IN  IF tool_name \in ctx.blocked_tools
        THEN block(PyStr(GetOr(ctx.blocked_reasons, tool_name, DEFAULT_BLOCK_REASON)))
        ELSE IF tool_name \in ctx.confirm_tools /\ ~_is_confirmed(args)
        THEN require_confirm(PyStr(GetOr(ctx.confirm_reasons, tool_name, DEFAULT_CONFIRM_REASON)))
        ELSE allow

\* A variant that remembers a confirmation: once a call of the tool was let through
\* on a confirmation flag, later calls of it are let through without one.
check_tool_call_Remembering(rs, scope, tool_name, tool_args) ==
    IF \E i \in 1..Len(calls) :
            /\ calls[i].tool_name = tool_name
            /\ Truthy(calls[i].tool_args) /\ _is_confirmed(calls[i].tool_args.v)
            /\ calls[i].result.value = allow
    THEN Return(allow)
    ELSE IF HasAttributes(rs, scope)
    THEN Return(Decide(rs, scope, tool_name, tool_args))
    ELSE Raise("AttributeError")

check_tool_call(rs, scope, tool_name, tool_args) ==
    IF HasAttributes(rs, scope)
    THEN Return(Decide(rs, scope, tool_name, tool_args))
    ELSE Raise("AttributeError")

(***************************************************************************)
(* parser_agent.py                                                         *)
(***************************************************************************)
TOOL_EXECUTE_DRAFT == <<"g","m","a","i","l","_","e","x","e","c","u","t","e","_","d","r","a","f","t">>
TOOL_FORWARD_EMAIL == <<"g","m","a","i","l","_","f","o","r","w","a","r","d","_","e","m","a","i","l">>
TOOL_DELETE_DRAFT == <<"g","m","a","i","l","_","d","e","l","e","t","e","_","d","r","a","f","t">>
TOOL_CREATE_DRAFT == <<"g","m","a","i","l","_","c","r","e","a","t","e","_","d","r","a","f","t">>

_SEND_TOOLS == {TOOL_EXECUTE_DRAFT}
_FORWARD_TOOLS == {TOOL_FORWARD_EMAIL}
_DELETE_TOOLS == {TOOL_DELETE_DRAFT}

\* a list of str, from a sequence of character sequences
StrList(xs) == PyList([i \in 1..Len(xs) |-> PyStr(xs[i])])

_norm(s) ==
    LET lowered == Lower(Strip(s))
        contracted == Replace(Replace(lowered, <<"d","o","n","'","t">>, <<"d","o","n","t">>), <<"d","o","n">> \o <<RSQUO>> \o <<"t">>, <<"d","o","n","t">>)
        \* [^\w\s@.-]+
        Punctuation(c) == c \notin WordChars \cup WhitespaceChars \cup {"@", ".", "-"}
        Whitespace(c) == c \in WhitespaceChars
    IN  Strip(SubRuns(SubRuns(contracted, Punctuation, FALSE), Whitespace, FALSE))

TRIGGERS ==
    { <<"a","l","w","a","y","s"," ">>, <<"n","e","v","e","r"," ">>, <<"f","r","o","m"," ","n","o","w"," ","o","n">>, <<"i","n"," ","t","h","e"," ","f","u","t","u","r","e">>, <<"p","l","e","a","s","e"," ","a","l","w","a","y","s">>, <<"p","l","e","a","s","e"," ","n","e","v","e","r">>,
      <<"d","o","n","t"," ">>, <<"d","o"," ","n","o","t"," ">>, <<"s","t","o","p"," ">>, <<"a","v","o","i","d"," ">>, <<"m","a","k","e"," ","s","u","r","e"," ">> }

looks_like_rule(txt) ==
    LET raw == Lower(Strip(txt))
        t == _norm(txt)
    IN  IF StartsWith(raw, <<"r","u","l","e",":">>) \/ StartsWith(raw, <<"r","u","l","e","s",":">>) THEN TRUE
        ELSE IF t = <<>> THEN FALSE
        ELSE \E tr \in TRIGGERS : Contains(t, tr)

\* re.match of ^\s*rules?\s*:\s*(.*) to the end, ignoring case, on the stripped text: what
\* follows "rule" or "rules", optional whitespace, a colon and optional
\* whitespace, when no line break is in it ("." matches none); else no match.
_strip_rule_prefix(txt) ==
    LET t == Strip(txt)
        AfterWord ==
            IF StartsWith(Lower(t), <<"r","u","l","e","s">>) /\ StartsWith(LStrip(SubSeq(t, 6, Len(t))), <<":">>)
            THEN LStrip(SubSeq(t, 6, Len(t)))
            ELSE IF StartsWith(Lower(t), <<"r","u","l","e">>) /\ StartsWith(LStrip(SubSeq(t, 5, Len(t))), <<":">>)
            THEN LStrip(SubSeq(t, 5, Len(t)))
            ELSE <<>>
        rest == LStrip(Tail(AfterWord))
    IN  IF AfterWord # <<>> /\ ~Contains(rest, <<"\n">>) THEN Strip(rest) ELSE t

RuleParseResult(rule, explanation, confidence, needs_confirmation) ==
    [t |-> "RuleParseResult",
     v |-> [rule |-> rule, explanation |-> explanation, confidence |-> confidence,
            needs_confirmation |-> needs_confirmation]]

\* A variant that knows "don't" only with its apostrophe, which _norm has removed.
IsNever_Apostrophe(t) ==
    \E p \in {<<"n","e","v","e","r"," ">>, <<"d","o","n","'","t"," ">>, <<"d","o"," ","n","o","t"," ">>, <<"s","t","o","p"," ">>, <<"a","v","o","i","d"," ">>} : StartsWith(t, p)

\* parser_agent.py 93-99: the intent keywords, on the normalized text t
IsNever(t) ==
    \E p \in {<<"n","e","v","e","r"," ">>, <<"d","o","n","t"," ">>, <<"d","o","n","'","t"," ">>, <<"d","o"," ","n","o","t"," ">>, <<"s","t","o","p"," ">>, <<"a","v","o","i","d"," ">>} : StartsWith(t, p)

IsAlways(t) == \E p \in {<<"a","l","w","a","y","s"," ">>, <<"p","l","e","a","s","e"," ","a","l","w","a","y","s"," ">>, <<"m","a","k","e"," ","s","u","r","e"," ">>} : StartsWith(t, p)

WantsConfirm(t) ==
    \E k \in {<<"c","o","n","f","i","r","m">>, <<"c","o","n","f","i","r","m","a","t","i","o","n">>, <<"a","s","k"," ","m","e">>, <<"a","p","p","r","o","v","e">>, <<"a","p","p","r","o","v","a","l">>} : Contains(t, k)

WantsDraftFirst(t) ==
    \E k \in {<<"s","h","o","w"," ","d","r","a","f","t">>, <<"d","r","a","f","t"," ","f","i","r","s","t">>, <<"p","r","e","v","i","e","w">>, <<"b","e","f","o","r","e"," ","s","e","n","d","i","n","g">>} : Contains(t, k)

MentionsSend(t) ==
    Contains(t, <<"s","e","n","d">>) /\ (Contains(t, <<"e","m","a","i","l">>) \/ Contains(t, <<"e","m","a","i","l","s">>) \/ Contains(t, <<"m","a","i","l">>))

\* parse_user_rule(text, scope); new_id is what _new_rule_id() gives this call.
\* A confidence is in hundredths.
parse_user_rule(txt, scope, new_id) ==
    LET raw == _strip_rule_prefix(txt)
        t == _norm(raw)
        Has(k) == Contains(t, k)
        is_never == IsNever(t)
        is_always == IsAlways(t)
        wants_confirm == WantsConfirm(t)
        wants_draft_first == WantsDraftFirst(t)
        mentions_send == MentionsSend(t)
        mentions_forward == Has(<<"f","o","r","w","a","r","d">>)
        mentions_delete == Has(<<"d","e","l","e","t","e">>) /\ Has(<<"d","r","a","f","t">>)
        NewRule(actions) == Rule(new_id, TRUE, scope, raw, actions, None, None)
    IN  IF ~looks_like_rule(txt) THEN None
        ELSE IF (Has(<<"b","e"," ","c","o","n","c","i","s","e">>) \/ Has(<<"c","o","n","c","i","s","e">>))
                /\ ~(mentions_send \/ mentions_forward \/ mentions_delete)
        THEN RuleParseResult(
                NewRule(<<RuleAction(PROMPT_INJECT, [text |-> PyStr(<<"B","e"," ","c","o","n","c","i","s","e",".">>)])>>),
                <<"I">> \o <<RSQUO>> \o <<"l","l"," ","a","d","d"," ","a"," ","r","u","l","e"," ","t","o"," ","b","e"," ","c","o","n","c","i","s","e"," ","i","n"," ","r","e","s","p","o","n","s","e","s",".">>, 90, FALSE)
        ELSE IF (\E k \in {<<"n","o"," ","e","m","o","j","i">>, <<"n","o"," ","e","m","o","j","i","s">>, <<"a","v","o","i","d"," ","e","m","o","j","i">>, <<"a","v","o","i","d"," ","e","m","o","j","i","s">>} : Has(k))
                /\ ~(mentions_send \/ mentions_forward \/ mentions_delete)
        THEN RuleParseResult(
                NewRule(<<RuleAction(PROMPT_INJECT, [text |-> PyStr(<<"D","o"," ","n","o","t"," ","u","s","e"," ","e","m","o","j","i","s",".">>)])>>),
                <<"I">> \o <<RSQUO>> \o <<"l","l"," ","a","d","d"," ","a"," ","r","u","l","e"," ","t","o"," ","a","v","o","i","d"," ","e","m","o","j","i","s",".">>, 90, FALSE)
        ELSE IF mentions_send /\ is_never /\ ~wants_confirm /\ ~wants_draft_first
        THEN RuleParseResult(
                NewRule(<<RuleAction(BLOCK_TOOL,
                            [tools |-> StrList(Sorted(_SEND_TOOLS)),
                             reason |-> PyStr(<<"U","s","e","r"," ","r","u","l","e",":"," ","n","e","v","e","r"," ","s","e","n","d"," ","e","m","a","i","l","s"," ","a","u","t","o","m","a","t","i","c","a","l","l","y",".">>)])>>),
                <<"I">> \o <<RSQUO>> \o <<"l","l"," ","b","l","o","c","k"," ","s","e","n","d","i","n","g"," ","e","m","a","i","l","s",".">>, 95, FALSE)
        ELSE IF mentions_forward /\ is_never
        THEN RuleParseResult(
                NewRule(<<RuleAction(BLOCK_TOOL,
                            [tools |-> StrList(Sorted(_FORWARD_TOOLS)),
                             reason |-> PyStr(<<"U","s","e","r"," ","r","u","l","e",":"," ","n","e","v","e","r"," ","f","o","r","w","a","r","d"," ","e","m","a","i","l","s",".">>)])>>),
                <<"I">> \o <<RSQUO>> \o <<"l","l"," ","b","l","o","c","k"," ","f","o","r","w","a","r","d","i","n","g"," ","e","m","a","i","l","s",".">>, 95, FALSE)
        ELSE IF mentions_send /\ (wants_confirm \/ wants_draft_first \/ is_always)
                /\ (wants_confirm \/ wants_draft_first)
        THEN RuleParseResult(
                NewRule(<<RuleAction(CONFIRM_TOOL,
                            [tools |-> StrList(Sorted(_SEND_TOOLS)),
                             reason |-> PyStr(IF wants_draft_first
                                THEN <<"U","s","e","r"," ","r","u","l","e",":"," ","s","h","o","w"," ","a"," ","d","r","a","f","t"," ","a","n","d"," ","r","e","q","u","i","r","e"," ","c","o","n","f","i","r","m","a","t","i","o","n"," ","b","e","f","o","r","e"," ","s","e","n","d","i","n","g"," ","e","m","a","i","l","s",".">>
                                ELSE <<"U","s","e","r"," ","r","u","l","e",":"," ","r","e","q","u","i","r","e"," ","c","o","n","f","i","r","m","a","t","i","o","n"," ","b","e","f","o","r","e"," ","s","e","n","d","i","n","g"," ","e","m","a","i","l","s",".">>)])>>),
                <<"I">> \o <<RSQUO>> \o <<"l","l"," ","r","e","q","u","i","r","e"," ","c","o","n","f","i","r","m","a","t","i","o","n"," ","b","e","f","o","r","e"," ","s","e","n","d","i","n","g"," ","e","m","a","i","l","s",".">>, 90, FALSE)
        ELSE IF mentions_delete /\ is_never
        THEN RuleParseResult(
                NewRule(<<RuleAction(BLOCK_TOOL,
                            [tools |-> StrList(Sorted(_DELETE_TOOLS)),
                             reason |-> PyStr(<<"U","s","e","r"," ","r","u","l","e",":"," ","n","e","v","e","r"," ","d","e","l","e","t","e"," ","d","r","a","f","t","s",".">>)])>>),
                <<"I">> \o <<RSQUO>> \o <<"l","l"," ","b","l","o","c","k"," ","d","e","l","e","t","i","n","g"," ","d","r","a","f","t","s",".">>, 90, FALSE)
        ELSE None

(***************************************************************************)
(* store.py                                                                *)
(***************************************************************************)
DigitChars == <<"0", "1", "2", "3", "4", "5", "6", "7", "8", "9">>

\* _utc_now_iso() at the n-th reading of the clock: a string that differs from,
\* and sorts after, that of every earlier reading.
_utc_now_iso(n) == PyStr(<<"T", DigitChars[((n \div 10) % 10) + 1], DigitChars[(n % 10) + 1]>>)

\* The value of a member of RuleScope or RuleActionType: what json.dumps writes
\* for the member, and what o.value is in _json_default.
EnumValue(m) ==
    CASE m = GLOBAL -> <<"g","l","o","b","a","l">>
      [] m = CHAT -> <<"c","h","a","t">>
      [] m = EMAIL -> <<"e","m","a","i","l">>
      [] m = PROMPT_INJECT -> <<"p","r","o","m","p","t","_","i","n","j","e","c","t">>
      [] m = BLOCK_TOOL -> <<"b","l","o","c","k","_","t","o","o","l">>
      [] m = CONFIRM_TOOL -> <<"c","o","n","f","i","r","m","_","t","o","o","l">>
      [] m = "boost_agent" -> <<"b","o","o","s","t","_","a","g","e","n","t">>
      [] m = "exclude_agent" -> <<"e","x","c","l","u","d","e","_","a","g","e","n","t">>
      [] m = "force_agent" -> <<"f","o","r","c","e","_","a","g","e","n","t">>

\* _coerce_scope(scope) on a value read from JSON: RuleScope(str(scope)), a
\* ValueError when no member has that value.
_coerce_scope(scope) ==
    IF IsStr(scope) /\ \E m \in RuleScope : EnumValue(m) = scope.v
    THEN Return(CHOOSE m \in RuleScope : EnumValue(m) = scope.v)
    ELSE Raise("ValueError")

\* asdict on one action, as json.dumps then writes it: an object with the keys
\* type and payload, whether the action was a RuleAction or already a dict.
ActionToJson(a) == PyDict([type |-> PyStr(EnumValue(a.type)), payload |-> PyDict(a.payload)])

\* _rule_to_dict(rule), as json.dumps then writes it
_rule_to_dict(rule) ==
    PyDict([id |-> PyStr(rule.id),
            enabled |-> PyBool(rule.enabled),
            scope |-> PyStr(EnumValue(rule.scope)),
            raw_text |-> PyStr(rule.raw_text),
            actions |-> PyList([i \in 1..Len(rule.actions) |-> ActionToJson(rule.actions[i])]),
            created_at |-> rule.created_at,
            updated_at |-> rule.updated_at])

\* The fields of the Rule dataclass: Rule(**d) takes these keywords only, and
\* id has no default.
RuleFields == {"id", "enabled", "scope", "raw_text", "actions", "created_at", "updated_at"}

\* One entry of the "actions" list as Rule(**d) keeps it: the dict json.loads
\* built, whose "type" is a str equal to the member of that value.
ActionFromJson(x) ==
    [cls |-> "dict",
     type |-> CHOOSE m \in RuleActionType : EnumValue(m) = x.v["type"].v,
     payload |-> x.v["payload"].v]

\* _rule_from_dict(d)
_rule_from_dict(d) ==
    LET scope == IF "scope" \in DOMAIN d THEN _coerce_scope(d["scope"]) ELSE Return(GLOBAL)
        actions == GetOr(d, "actions", PyList(<<>>)).v
    IN  IF scope.raised # "" THEN scope
        ELSE IF "id" \notin DOMAIN d \/ ~(DOMAIN d \subseteq RuleFields) THEN Raise("TypeError")
        ELSE Return(Rule(d["id"].v,
                         GetOr(d, "enabled", PyBool(TRUE)).v,
                         scope.value,
                         GetOr(d, "raw_text", PyStr(<<>>)).v,
                         [i \in 1..Len(actions) |-> ActionFromJson(actions[i])],
                         Get(d, "created_at"),
                         Get(d, "updated_at")))

\* The keys of the dict _rules, kept as the sequence of its values.
Ids(rs) == {rs[i].id : i \in 1..Len(rs)}

IndexOf(rs, id) == CHOOSE i \in 1..Len(rs) : rs[i].id = id

\* self._rules[rule.id] = rule: a known key keeps its place
SetItem(rs, rule) ==
    IF rule.id \in Ids(rs) THEN [rs EXCEPT ![IndexOf(rs, rule.id)] = rule] ELSE Append(rs, rule)

\* del self._rules[rule_id]
DelItem(rs, rule_id) == SelectSeq(rs, LAMBDA r : r.id # rule_id)

\* A variant that leaves the rules in the order of the dict.
list_rules_Unsorted(rs, scope, enabled_only) ==
    LET wanted == IF scope.t = "RuleScope" THEN Return(scope.v) ELSE _coerce_scope(scope)
    IN  IF scope # None /\ wanted.raised # "" THEN wanted
        ELSE Return(SelectSeq(rs, LAMBDA r : /\ (scope = None \/ r.scope = wanted.value)
                                             /\ (~enabled_only \/ r.enabled)))

\* list_rules(scope, enabled_only) on _rules.  scope is None, a member of
\* RuleScope ([t |-> "RuleScope", v |-> member]) or another value, which
\* _coerce_scope turns into a member or refuses.
list_rules(rs, scope, enabled_only) ==
    LET wanted == IF scope.t = "RuleScope" THEN Return(scope.v) ELSE _coerce_scope(scope)
    IN  IF scope # None /\ wanted.raised # "" THEN wanted
        ELSE LET kept == SelectSeq(rs, LAMBDA r : /\ (scope = None \/ r.scope = wanted.value)
                                                  /\ (~enabled_only \/ r.enabled))
                 ids == Sorted({kept[i].id : i \in 1..Len(kept)})
             IN  Return([i \in 1..Len(ids) |-> kept[IndexOf(kept, ids[i])]])

\* A file: absent, empty, holding the whole text of a document, or holding a
\* proper prefix of that text.
Absent == [kind |-> "absent", doc |-> None]
EmptyFile == [kind |-> "empty", doc |-> None]
Written(doc) == [kind |-> "full", doc |-> doc]
Truncated(doc) == [kind |-> "partial", doc |-> doc]

\* The payload save() serializes.
Payload(now, rs) ==
    PyDict([version |-> PyInt(1), updated_at |-> now,
            rules |-> PyList([i \in 1..Len(rs) |-> _rule_to_dict(rs[i])])])

\* A variant of the loop that ends at the first entry it cannot take.
RECURSIVE LoadItems_Abort(_, _)
LoadItems_Abort(items, out) ==
    IF items = <<>> THEN out
    ELSE LET item == Head(items)
             rule == IF item.t = "dict" THEN _rule_from_dict(item.v) ELSE Raise("TypeError")
         IN  IF rule.raised = "" THEN LoadItems_Abort(Tail(items), SetItem(out, rule.value)) ELSE out

\* The loop of load() over rules_list.
RECURSIVE LoadItems(_, _)
LoadItems(items, out) ==
    IF items = <<>> THEN out
    ELSE LET item == Head(items)
             rule == IF item.t = "dict" THEN _rule_from_dict(item.v) ELSE Raise("TypeError")
         IN  LoadItems(Tail(items), IF rule.raised = "" THEN SetItem(out, rule.value) ELSE out)

\* load() on the file at path: the new _rules, or what json.loads or the loop raised.
load(file) ==
    CASE file.kind \in {"absent", "empty"} -> Return(<<>>)
      [] file.kind = "partial" -> Raise("JSONDecodeError")
      [] file.kind = "full" ->
            LET data == file.doc
                rules_list == IF data.t = "dict" THEN Get(data.v, "rules") ELSE data
            IN  CASE rules_list.t = "NoneType" -> Return(<<>>)
                  [] rules_list.t = "list" -> Return(LoadItems(rules_list.v, <<>>))
                  [] rules_list.t \in {"str", "dict"} -> Return(<<>>)
                  [] OTHER -> Raise("TypeError")

\* The in-memory part of add_rule(rule) at clock reading n: the new _rules, the
\* clock after it, what the call returns, and whether it goes on to save.
add_rule(rs, n, rule) ==
    IF rule.id = <<>>
    THEN [rules |-> rs, clock |-> n, ret |-> Raise("ValueError"), go_on |-> FALSE]
    ELSE LET stamp == rule.created_at \in {None, PyStr(<<>>)}
             n1 == IF stamp THEN n + 1 ELSE n
             stamped == [rule EXCEPT !.created_at = IF stamp THEN _utc_now_iso(n) ELSE @,
                                     !.updated_at = _utc_now_iso(n1)]
         IN  [rules |-> SetItem(rs, stamped), clock |-> n1 + 1,
              ret |-> Return(stamped), go_on |-> TRUE]

\* A variant that flips the flag of the rule.
set_enabled_Toggle(rs, n, rule_id, enabled) ==
    IF rule_id \notin Ids(rs)
    THEN [rules |-> rs, clock |-> n, ret |-> Return(PyBool(FALSE)), go_on |-> FALSE]
    ELSE [rules |-> [rs EXCEPT ![IndexOf(rs, rule_id)].enabled = ~@,
                               ![IndexOf(rs, rule_id)].updated_at = _utc_now_iso(n)],
          clock |-> n + 1, ret |-> Return(PyBool(TRUE)), go_on |-> TRUE]

\* The in-memory part of set_enabled(rule_id, enabled)
set_enabled(rs, n, rule_id, enabled) ==
    IF rule_id \notin Ids(rs)
    THEN [rules |-> rs, clock |-> n, ret |-> Return(PyBool(FALSE)), go_on |-> FALSE]
    ELSE [rules |-> [rs EXCEPT ![IndexOf(rs, rule_id)].enabled = enabled,
                               ![IndexOf(rs, rule_id)].updated_at = _utc_now_iso(n)],
          clock |-> n + 1, ret |-> Return(PyBool(TRUE)), go_on |-> TRUE]

\* The in-memory part of delete(rule_id)
delete(rs, n, rule_id) ==
    IF rule_id \notin Ids(rs)
    THEN [rules |-> rs, clock |-> n, ret |-> Return(PyBool(FALSE)), go_on |-> FALSE]
    ELSE [rules |-> DelItem(rs, rule_id), clock |-> n, ret |-> Return(PyBool(TRUE)), go_on |-> TRUE]

\* parse_user_rule has not been called.
NotParsed == [t |-> "unset", v |-> 0]

(***************************************************************************)
(* The store: calls on one RuleStore, taken step by step                   *)
(***************************************************************************)
MaxOps == 2

Threads == {1, 2}

\* The steps of _atomic_write_text that can fail.
WriteSteps == {"mkdir", "mkstemp", "write", "fsync", "replace"}

\* A call on the store.  A field the call does not take holds a filler.
StoreCall(name, rule, rule_id, enabled, save) ==
    [name |-> name, rule |-> rule, rule_id |-> rule_id, enabled |-> enabled, save |-> save]

NoRule == Rule(<<>>, FALSE, GLOBAL, <<>>, <<>>, None, None)
NoCall == StoreCall("none", NoRule, <<>>, FALSE, FALSE)
AddRule(rule, save) == StoreCall("add_rule", rule, <<>>, FALSE, save)
SetEnabled(rule_id, enabled, save) == StoreCall("set_enabled", NoRule, rule_id, enabled, save)
Delete(rule_id, save) == StoreCall("delete", NoRule, rule_id, FALSE, save)
Save == StoreCall("save", NoRule, <<>>, FALSE, TRUE)

NotConstructed == [constructed |-> FALSE, raised |-> "", rules |-> <<>>]

\* No call is in progress in any thread.
ThreadsIdle ==
    /\ pc = [t \in Threads |-> "idle"]
    /\ op = [t \in Threads |-> NoCall]
    /\ iter_len = [t \in Threads |-> 0]
    /\ snap = [t \in Threads |-> None]
    /\ tmp = [t \in Threads |-> Absent]
    /\ dest_before = [t \in Threads |-> Absent]
    /\ before = [t \in Threads |-> [mem |-> <<>>, op |-> NoCall, ret |-> Return(None)]]
    /\ faults = [t \in Threads |-> {}]
    /\ ret = [t \in Threads |-> Return(None)]

\* No store is in use.
StoreIdle ==
    /\ mem = <<>>
    /\ disk = Absent
    /\ clock = 0
    /\ ops = 0
    /\ fresh = NotConstructed
    /\ listed = <<>>
    /\ ThreadsIdle

EngineIdle ==
    /\ rules = <<>>
    /\ listed = <<>>
    /\ calls = <<>>
    /\ text = <<>>
    /\ parsed = NotParsed
    /\ prompt = None

\* Thread t enters a call.  tmp[t] is the temporary file of the call in
\* progress: one a finished call left behind has another name.
Begin(t, call) ==
    /\ pc[t] \in {"idle", "done"}
    /\ ~fresh.constructed
    /\ pc' = [pc EXCEPT ![t] = "call"]
    /\ op' = [op EXCEPT ![t] = call]
    /\ iter_len' = [iter_len EXCEPT ![t] = 0]
    /\ snap' = [snap EXCEPT ![t] = None]
    /\ tmp' = [tmp EXCEPT ![t] = Absent]
    /\ dest_before' = [dest_before EXCEPT ![t] = disk]
    /\ before' = [before EXCEPT ![t] = [mem |-> mem, op |-> op[t], ret |-> ret[t]]]
    /\ faults' = [faults EXCEPT ![t] = {}]
    /\ ret' = [ret EXCEPT ![t] = Return(None)]
    /\ ops' = ops + 1
    /\ UNCHANGED <<mem, disk, clock, fresh>>
    /\ UNCHANGED engineVars

\* add_rule, set_enabled and delete up to their "if save", and save() itself:
\* the change of _rules.  ret[t] is what the call returns unless the save raises.
CallBody(t) ==
    /\ pc[t] = "call"
    /\ LET call == op[t]
           out == CASE call.name = "add_rule" -> add_rule(mem, clock, call.rule)
                    [] call.name = "set_enabled" -> set_enabled(mem, clock, call.rule_id, call.enabled)
                    [] call.name = "delete" -> delete(mem, clock, call.rule_id)
                    [] call.name = "save" ->
                          [rules |-> mem, clock |-> clock, ret |-> Return(None), go_on |-> TRUE]
       IN  /\ mem' = out.rules
           /\ clock' = out.clock
           /\ ret' = [ret EXCEPT ![t] = out.ret]
           /\ pc' = [pc EXCEPT ![t] = IF out.go_on /\ call.save THEN "save" ELSE "done"]
    /\ UNCHANGED <<disk, ops, fresh, op, iter_len, snap, tmp, dest_before, before, faults>>
    /\ UNCHANGED engineVars

\* save(): the payload's updated_at is read, and the iteration of
\* self._rules.values() begins.
IterBegin(t) ==
    /\ pc[t] = "save"
    /\ snap' = [snap EXCEPT ![t] = Payload(_utc_now_iso(clock), <<>>)]
    /\ clock' = clock + 1
    /\ iter_len' = [iter_len EXCEPT ![t] = Len(mem)]
    /\ pc' = [pc EXCEPT ![t] = "iterate"]
    /\ UNCHANGED <<mem, disk, ops, fresh, op, tmp, dest_before, before, faults, ret>>
    /\ UNCHANGED engineVars

\* The iteration ends with the dict the size it had: the payload is complete
\* and json.dumps gives its text.
IterEnd(t) ==
    /\ pc[t] = "iterate"
    /\ Len(mem) = iter_len[t]
    /\ snap' = [snap EXCEPT ![t] = Payload(snap[t].v["updated_at"], mem)]
    /\ pc' = [pc EXCEPT ![t] = "mkdir"]
    /\ UNCHANGED <<mem, disk, clock, ops, fresh, op, iter_len, tmp, dest_before, before, faults, ret>>
    /\ UNCHANGED engineVars

\* Another thread changed the size of the dict under the iteration:
\* "RuntimeError: dictionary changed size during iteration".
IterRaise(t) ==
    /\ pc[t] = "iterate"
    /\ Len(mem) # iter_len[t]
    /\ ret' = [ret EXCEPT ![t] = Raise("RuntimeError")]
    /\ pc' = [pc EXCEPT ![t] = "done"]
    /\ UNCHANGED <<mem, disk, clock, ops, fresh, op, iter_len, snap, tmp, dest_before, before, faults>>
    /\ UNCHANGED engineVars

\* A step of _atomic_write_text before its try block fails: the OSError leaves
\* the function at once.
FailOutside(t, step) ==
    /\ faults' = [faults EXCEPT ![t] = {step}]
    /\ ret' = [ret EXCEPT ![t] = Raise("OSError")]
    /\ pc' = [pc EXCEPT ![t] = "done"]
    /\ UNCHANGED <<mem, disk, clock, ops, fresh, op, iter_len, snap, tmp, dest_before, before>>
    /\ UNCHANGED engineVars

\* A step inside the try block fails: the finally clause runs next.
FailInside(t, step) ==
    /\ faults' = [faults EXCEPT ![t] = {step}]
    /\ pc' = [pc EXCEPT ![t] = "cleanup"]
    /\ UNCHANGED <<mem, disk, clock, ops, fresh, op, iter_len, snap, dest_before, before, ret>>
    /\ UNCHANGED engineVars

\* A step succeeds and leaves the files as they are.
Pass(t, next) ==
    /\ pc' = [pc EXCEPT ![t] = next]
    /\ UNCHANGED <<mem, disk, clock, ops, fresh, op, iter_len, snap, tmp, dest_before, before, faults, ret>>
    /\ UNCHANGED engineVars

\* _ensure_parent_dir(path)
MkdirOk(t) == pc[t] = "mkdir" /\ Pass(t, "mkstemp")

MkdirFail(t) == pc[t] = "mkdir" /\ FailOutside(t, "mkdir")

\* tempfile.mkstemp: a new, empty file in the directory of path
MkstempOk(t) ==
    /\ pc[t] = "mkstemp"
    /\ tmp' = [tmp EXCEPT ![t] = EmptyFile]
    /\ pc' = [pc EXCEPT ![t] = "write"]
    /\ UNCHANGED <<mem, disk, clock, ops, fresh, op, iter_len, snap, dest_before, before, faults, ret>>
    /\ UNCHANGED engineVars

MkstempFail(t) == pc[t] = "mkstemp" /\ FailOutside(t, "mkstemp")

\* f.write(text); f.flush()
WriteOk(t) ==
    /\ pc[t] = "write"
    /\ tmp' = [tmp EXCEPT ![t] = Written(snap[t])]
    /\ pc' = [pc EXCEPT ![t] = "fsync"]
    /\ UNCHANGED <<mem, disk, clock, ops, fresh, op, iter_len, snap, dest_before, before, faults, ret>>
    /\ UNCHANGED engineVars

\* A variant that writes the text to the file at path itself.
WriteFail_InPlace(t) ==
    /\ pc[t] = "write"
    /\ \E file \in {EmptyFile, Truncated(snap[t])} : disk' = file
    /\ faults' = [faults EXCEPT ![t] = {"write"}]
    /\ pc' = [pc EXCEPT ![t] = "cleanup"]
    /\ UNCHANGED <<mem, clock, ops, fresh, op, iter_len, snap, tmp, dest_before, before, ret>>
    /\ UNCHANGED engineVars

\* The write fails with none or some of the text in the temporary file.
WriteFail(t) ==
    /\ pc[t] = "write"
    /\ \E file \in {EmptyFile, Truncated(snap[t])} : tmp' = [tmp EXCEPT ![t] = file]
    /\ FailInside(t, "write")

\* os.fsync(f.fileno())
FsyncOk(t) == pc[t] = "fsync" /\ Pass(t, "replace")

FsyncFail(t) == pc[t] = "fsync" /\ tmp' = tmp /\ FailInside(t, "fsync")

\* os.replace(tmp_path, path): the temporary file becomes the file at path
ReplaceOk(t) ==
    /\ pc[t] = "replace"
    /\ disk' = tmp[t]
    /\ tmp' = [tmp EXCEPT ![t] = Absent]
    /\ pc' = [pc EXCEPT ![t] = "cleanup"]
    /\ UNCHANGED <<mem, clock, ops, fresh, op, iter_len, snap, dest_before, before, faults, ret>>
    /\ UNCHANGED engineVars

ReplaceFail(t) == pc[t] = "replace" /\ tmp' = tmp /\ FailInside(t, "replace")

\* What the call gives back once the finally clause has run.
Outcome(t) == IF faults[t] \cap WriteSteps # {} THEN Raise("OSError") ELSE ret[t]

\* The finally clause: the temporary file, if it is still there, is removed.
CleanupOk(t) ==
    /\ pc[t] = "cleanup"
    /\ tmp' = [tmp EXCEPT ![t] = Absent]
    /\ ret' = [ret EXCEPT ![t] = Outcome(t)]
    /\ pc' = [pc EXCEPT ![t] = "done"]
    /\ UNCHANGED <<mem, disk, clock, ops, fresh, op, iter_len, snap, dest_before, before, faults>>
    /\ UNCHANGED engineVars

\* The finally clause: os.remove raises OSError, which is passed over.
CleanupFail(t) ==
    /\ pc[t] = "cleanup"
    /\ tmp[t] # Absent
    /\ faults' = [faults EXCEPT ![t] = @ \cup {"remove"}]
    /\ ret' = [ret EXCEPT ![t] = Outcome(t)]
    /\ pc' = [pc EXCEPT ![t] = "done"]
    /\ UNCHANGED <<mem, disk, clock, ops, fresh, op, iter_len, snap, tmp, dest_before, before>>
    /\ UNCHANGED engineVars

\* RuleStore(path) anew on the same path, which exists: __init__ calls load().
\* The store that wrote the file is not used after that.
Restart ==
    /\ \A t \in Threads : pc[t] \in {"idle", "done"}
    /\ ~fresh.constructed
    /\ LET loaded == load(disk)
       IN  fresh' = [constructed |-> TRUE, raised |-> loaded.raised,
                     rules |-> IF loaded.raised = "" THEN loaded.value ELSE <<>>]
    /\ UNCHANGED <<mem, disk, clock, ops, pc, op, iter_len, snap, tmp, dest_before, before, faults, ret>>
    /\ UNCHANGED engineVars

(***************************************************************************)
(* The engine: inputs and operations                                       *)
(***************************************************************************)
MaxRules == 2


Scopes == {GLOBAL, CHAT, EMAIL}

\* All sequences over S of length at most n.
SeqsUpTo(S, n) == UNION {[1..k -> S] : k \in 0..n}

\* Rules as a caller builds them: an enabled rule of each scope and a disabled
\* one, of each shape, the shapes covering a reason given, missing, blank or not a string, a raw_text that
\* is empty, blank or set, and tools given as a list, as one string, or with
\* entries that are blank or not strings.
EngineShapes ==
    { [raw_text |-> <<"n","e","v","e","r"," ","s","e","n","d">>,
       actions |-> <<RuleAction(BLOCK_TOOL,
                        [tools |-> PyList(<<PyStr(TOOL_EXECUTE_DRAFT)>>), reason |-> PyStr(<<" ","n","o"," ","s","e","n","d","i","n","g"," ">>)])>>],
      [raw_text |-> <<>>,
       actions |-> <<RuleAction(CONFIRM_TOOL,
                        [tools |-> PyList(<<PyStr(TOOL_EXECUTE_DRAFT), PyStr(TOOL_FORWARD_EMAIL)>>)])>>],
      [raw_text |-> <<" ">>,
       actions |-> <<RuleAction(CONFIRM_TOOL, [tools |-> PyStr(TOOL_EXECUTE_DRAFT), reason |-> PyStr(<<" ">>)])>>],
      [raw_text |-> <<"b","e"," ","b","r","i","e","f">>,
       actions |-> <<RuleAction(PROMPT_INJECT, [text |-> PyStr(<<"B","e"," ","b","r","i","e","f",".">>)]),
                     RuleAction(BLOCK_TOOL,
                        [tools |-> PyList(<<PyStr(TOOL_FORWARD_EMAIL), PyStr(<<" ">>), PyInt(7)>>), reason |-> PyInt(5)])>>] }

EngineRules ==
    { Rule(<<"r">>, TRUE, scope, shape.raw_text, shape.actions, None, None) :
        scope \in Scopes, shape \in EngineShapes }
    \cup { Rule(<<"r">>, FALSE, GLOBAL, shape.raw_text, shape.actions, None, None) :
        shape \in EngineShapes }

EngineTools == {TOOL_EXECUTE_DRAFT, TOOL_FORWARD_EMAIL, <<" ">>}

EngineArgs ==
    { None, PyDict(EmptyDict), PyDict([confirmed |-> PyBool(TRUE)]), PyDict([approved |-> PyStr(<<"n","o">>)]) }

\* One invocation of check_tool_call on the rule list: what it gave back, and
\* the context that collect_effective_rules computed in it.
Call(scopes, tools, args) ==
    \E scope \in scopes, tool_name \in tools, tool_args \in args :
        calls' = Append(calls,
                    [scope |-> scope, tool_name |-> tool_name, tool_args |-> tool_args,
                     result |-> check_tool_call(rules, scope, tool_name, tool_args),
                     ctx |-> collect_effective_rules(rules, scope)])

EngineInit ==
    /\ rules \in SeqsUpTo(EngineRules, MaxRules)
    /\ calls = <<>>
    /\ text = <<>>
    /\ parsed = NotParsed
    /\ prompt = None
    /\ StoreIdle

CheckToolCall ==
    /\ calls = <<>>
    /\ Call(Scopes, EngineTools, EngineArgs)
    /\ UNCHANGED <<rules, text, parsed, prompt>>
    /\ UNCHANGED <<listed, storeVars>>

EngineNext == CheckToolCall

SpecEngine == EngineInit /\ [][EngineNext]_vars

\* The last invocation.
Last == calls[Len(calls)]

\* An effective rule of the list has an action of this type naming the tool.
NamedBy(rs, scope, type, tool_name) ==
    \E i \in 1..Len(rs) :
        /\ rs[i].enabled
        /\ rs[i].scope \in {GLOBAL, scope}
        /\ \E j \in 1..Len(rs[i].actions) :
              /\ rs[i].actions[j].type = type
              /\ \E k \in 1..Len(ActionTools(rs[i].actions[j])) :
                    ActionTools(rs[i].actions[j])[k].v = tool_name

\* C1: a tool named by a BLOCK_TOOL action and by a CONFIRM_TOOL action of
\* effective rules is blocked, in every order of the rules, for every scope and
\* whatever the arguments, a confirmation flag included.
BlockDominatesConfirm ==
    \A i \in 1..Len(calls) :
        LET c == calls[i]
        IN  (/\ NamedBy(rules, c.scope, BLOCK_TOOL, c.tool_name)
             /\ NamedBy(rules, c.scope, CONFIRM_TOOL, c.tool_name))
                => c.result.raised = "" /\ c.result.value.allowed = FALSE

BlockDominatesConfirmWitness ==
    /\ calls # <<>>
    /\ NamedBy(rules, Last.scope, BLOCK_TOOL, Last.tool_name)
    /\ NamedBy(rules, Last.scope, CONFIRM_TOOL, Last.tool_name)
    /\ Last.tool_args = PyDict([confirmed |-> PyBool(TRUE)])
    /\ rules[1].actions[1].type = CONFIRM_TOOL
    /\ Last.result.value.allowed = FALSE

\* C2: every decision check_tool_call returns is well formed: a refusal asks for
\* no confirmation and carries a non-empty block reason; a request for
\* confirmation is an allowance and carries a non-empty confirm reason.
DecisionWellFormed ==
    \A i \in 1..Len(calls) :
        LET d == calls[i].result.value
        IN  calls[i].result.raised = "" =>
              /\ d.allowed = FALSE =>
                    /\ d.requires_confirmation = FALSE
                    /\ IsStr(d.block_reason) /\ d.block_reason.v # <<>>
              /\ d.requires_confirmation = TRUE =>
                    /\ d.allowed = TRUE
                    /\ IsStr(d.confirm_reason) /\ d.confirm_reason.v # <<>>

\* A refusal whose reason the engine had to default: the payload reason is not a
\* string.
DecisionWellFormedWitness ==
    /\ calls # <<>>
    /\ Last.result.raised = ""
    /\ Last.result.value.allowed = FALSE
    /\ Last.result.value.block_reason = PyStr(DEFAULT_BLOCK_REASON)
    /\ \E i \in 1..Len(rules) : \E j \in 1..Len(rules[i].actions) :
          Get(rules[i].actions[j].payload, "reason") = PyInt(5)

(***************************************************************************)
(* The confirmation flag: check_tool_call over every small tool_args       *)
(***************************************************************************)
MaxArgKeys == 2

ArgKeys == {"confirmed", "confirm", "user_confirmed", "approved", "allow", "note"}

ArgValues ==
    { PyBool(TRUE), PyBool(FALSE), PyInt(1), PyInt(0), PyFloat(1), None,
      PyStr(<<"Y","E","S">>), PyStr(<<"T","r","u","e">>), PyStr(<<"y">>), PyStr(<<"1">>), PyStr(<<"n","o">>), PyStr(<<" ","y","e","s","\n">>) }

\* The dicts with at most n of the keys.
DictsUpTo(keys, values, n) ==
    UNION { [D -> values] : D \in {K \in SUBSET keys : Cardinality(K) <= n} }

ConfirmArgs == { PyDict(d) : d \in DictsUpTo(ArgKeys, ArgValues, MaxArgKeys) }

ConfirmRule ==
    Rule(<<"c">>, TRUE, GLOBAL, <<"c","o","n","f","i","r","m"," ","b","e","f","o","r","e"," ","s","e","n","d","i","n","g">>,
         <<RuleAction(CONFIRM_TOOL, [tools |-> PyList(<<PyStr(TOOL_EXECUTE_DRAFT)>>)])>>, None, None)

BlockRule ==
    Rule(<<"b">>, TRUE, CHAT, <<"n","e","v","e","r"," ","s","e","n","d">>,
         <<RuleAction(BLOCK_TOOL, [tools |-> PyList(<<PyStr(TOOL_EXECUTE_DRAFT)>>)])>>, None, None)

ConfirmInit ==
    /\ rules \in {<<ConfirmRule>>, <<ConfirmRule, BlockRule>>}
    /\ calls = <<>>
    /\ text = <<>>
    /\ parsed = NotParsed
    /\ prompt = None
    /\ StoreIdle

CheckGatedCall ==
    /\ calls = <<>>
    /\ Call({GLOBAL, CHAT}, {TOOL_EXECUTE_DRAFT}, ConfirmArgs)
    /\ UNCHANGED <<rules, text, parsed, prompt>>
    /\ UNCHANGED <<listed, storeVars>>

ConfirmNext == CheckGatedCall

SpecConfirm == ConfirmInit /\ [][ConfirmNext]_vars

ConfirmKeySet == {"confirmed", "confirm", "user_confirmed", "approved", "allow"}

\* The call is of a tool that is confirm-gated and not blocked.
GatedNotBlocked(c) ==
    /\ NamedBy(rules, c.scope, CONFIRM_TOOL, c.tool_name)
    /\ ~NamedBy(rules, c.scope, BLOCK_TOOL, c.tool_name)

\* The arguments hold, under one of the five keys, TRUE, the integer 1, or a
\* string that Accepts.
HoldsFlag(args, Accepts(_)) ==
    \E k \in ConfirmKeySet \cap DOMAIN args :
        \/ args[k] = PyBool(TRUE)
        \/ args[k] = PyInt(1)
        \/ args[k].t = "str" /\ Accepts(args[k].v)

\* C6 as stated: a confirm-gated, unblocked tool is allowed exactly when a key
\* holds TRUE, 1, or a string equal to a truthy token but for case.
ConfirmedExactlyWhenFlagged ==
    \A i \in 1..Len(calls) :
        LET c == calls[i]
        IN  GatedNotBlocked(c) =>
              /\ c.result.raised = ""
              /\ c.result.value \in {allow, require_confirm(c.result.value.confirm_reason)}
              /\ c.result.value = allow <=>
                    HoldsFlag(c.tool_args.v, LAMBDA str : Lower(str) \in TRUTHY_TOKENS)

\* C6, amended: ... or a string equal to a truthy token but for case and for the
\* whitespace around it.
ConfirmedExactlyWhenFlaggedStripped ==
    \A i \in 1..Len(calls) :
        LET c == calls[i]
        IN  GatedNotBlocked(c) =>
              /\ c.result.raised = ""
              /\ c.result.value \in {allow, require_confirm(c.result.value.confirm_reason)}
              /\ c.result.value = allow <=>
                    HoldsFlag(c.tool_args.v,
                        LAMBDA str : \E token \in TRUTHY_TOKENS : Lower(Strip(str)) = token)

\* One matching key lets the call through although another recognised key
\* holds a value that does not confirm.
ConfirmedExactlyWhenFlaggedWitness ==
    /\ calls # <<>>
    /\ GatedNotBlocked(Last)
    /\ Last.tool_args = PyDict([approved |-> PyStr(<<"Y","E","S">>), confirmed |-> PyBool(FALSE)])
    /\ Last.result.value = allow

(***************************************************************************)
(* The gate over a sequence of invocations                                 *)
(***************************************************************************)
MaxCalls == 3

GateInit ==
    /\ rules \in {<<ConfirmRule>>, <<BlockRule, ConfirmRule>>}
    /\ calls = <<>>
    /\ text = <<>>
    /\ parsed = NotParsed
    /\ prompt = None
    /\ StoreIdle

CheckNextCall ==
    /\ Len(calls) < MaxCalls
    /\ Call({GLOBAL, CHAT}, {TOOL_EXECUTE_DRAFT, TOOL_FORWARD_EMAIL}, EngineArgs)
    /\ UNCHANGED <<rules, text, parsed, prompt>>
    /\ UNCHANGED <<listed, storeVars>>

GateNext == CheckNextCall

SpecGate == GateInit /\ [][GateNext]_vars

Flagged(c) == Truthy(c.tool_args) /\ _is_confirmed(c.tool_args.v)

\* C7: the gate keeps no state.  Two invocations with the same arguments get the
\* same decision wherever they stand in the sequence; and after a confirm-gated
\* call that carried a flag and was allowed, a later call of the same tool
\* without a flag is asked to confirm again.
GateStateless ==
    \A i, j \in 1..Len(calls) :
        LET a == calls[i]
            b == calls[j]
        IN  i < j =>
              /\ (a.scope = b.scope /\ a.tool_name = b.tool_name /\ a.tool_args = b.tool_args)
                    => a.result = b.result
              /\ (/\ GatedNotBlocked(a) /\ Flagged(a) /\ a.result.value = allow
                  /\ b.scope = a.scope /\ b.tool_name = a.tool_name /\ ~Flagged(b))
                    => b.result.value.requires_confirmation = TRUE

GateStatelessWitness ==
    /\ Len(calls) = 3
    /\ GatedNotBlocked(calls[1]) /\ ~Flagged(calls[1])
    /\ calls[1].result.value.requires_confirmation = TRUE
    /\ calls[2].scope = calls[1].scope /\ calls[2].tool_name = calls[1].tool_name
    /\ Flagged(calls[2]) /\ calls[2].result.value = allow
    /\ calls[3].scope = calls[1].scope /\ calls[3].tool_name = calls[1].tool_name
    /\ ~Flagged(calls[3]) /\ calls[3].result.value.requires_confirmation = TRUE

(***************************************************************************)
(* The parser: a user text, parsed, and the rule it gave enforced          *)
(***************************************************************************)
MaxWords == 3

\* The texts of the documented scenarios and of the templates.
ScenarioTexts ==
    { <<"a","l","w","a","y","s"," ","s","h","o","w"," ","d","r","a","f","t"," ","f","i","r","s","t"," ","b","e","f","o","r","e"," ","s","e","n","d","i","n","g">>,
      <<"b","e"," ","c","o","n","c","i","s","e">>,
      <<"n","e","v","e","r"," ","s","e","n","d"," ","e","m","a","i","l","s">>,
      <<"w","h","a","t"," ","i","s"," ","t","h","e"," ","w","e","a","t","h","e","r">>,
      <<"a","l","w","a","y","s"," ","b","e"," ","c","o","n","c","i","s","e">>,
      <<"R","u","l","e",":"," ","b","e"," ","c","o","n","c","i","s","e">>,
      <<"p","l","e","a","s","e"," ","a","l","w","a","y","s"," ","a","s","k"," ","m","e"," ","b","e","f","o","r","e"," ","s","e","n","d","i","n","g"," ","e","m","a","i","l">>,
      <<"n","e","v","e","r"," ","f","o","r","w","a","r","d"," ","e","m","a","i","l","s">>,
      <<"D","o","n","'","t"," ","d","e","l","e","t","e"," ","d","r","a","f","t","s","!">>,
      <<"f","r","o","m"," ","n","o","w"," ","o","n"," ","n","o"," ","e","m","o","j","i","s">>,
      <<"n","e","v","e","r"," ","s","e","n","d"," ","e","m","a","i","l","s",","," ","d","r","a","f","t"," ","f","i","r","s","t">>,
      <<"a","v","o","i","d"," ","s","e","n","d","i","n","g"," ","e","-","m","a","i","l">> }

Phrases ==
    { <<"n","e","v","e","r">>, <<"D","o","n","'","t">>, <<"d","o"," ","n","o","t">>, <<"s","t","o","p">>, <<"a","v","o","i","d">>,
      <<"s","e","n","d"," ","e","m","a","i","l","s">>, <<"s","e","n","d"," ","m","a","i","l",",">>, <<"c","o","n","f","i","r","m">>, <<"r","u","l","e",":">> }

\* The texts of at most MaxWords phrases, a space between two.
PhraseTexts == { Join(<<" ">>, ps) : ps \in SeqsUpTo(Phrases, MaxWords) }

Texts == ScenarioTexts \cup PhraseTexts

NewRuleIds == {<<"r","u","l","e","_","3","f","9","a","1","c","0","7","b","e">>}

ParserInit ==
    /\ text \in Texts
    /\ parsed = NotParsed
    /\ rules = <<>>
    /\ calls = <<>>
    /\ prompt = None
    /\ StoreIdle

\* parse_user_rule(text) and parse_user_rule(text, EMAIL)
ParseUserRule ==
    /\ parsed = NotParsed
    /\ \E scope \in {GLOBAL, EMAIL}, new_id \in NewRuleIds :
          parsed' = parse_user_rule(text, scope, new_id)
    /\ UNCHANGED <<text, rules, calls, prompt>>
    /\ UNCHANGED <<listed, storeVars>>

\* The caller holds the parsed rule in a rule list, alone or after another rule.
HoldRule ==
    /\ parsed.t = "RuleParseResult"
    /\ rules = <<>>
    /\ rules' \in {<<parsed.v.rule>>, <<ConfirmRule, parsed.v.rule>>}
    /\ UNCHANGED <<text, parsed, calls, prompt>>
    /\ UNCHANGED <<listed, storeVars>>

CheckSendCall ==
    /\ rules # <<>>
    /\ calls = <<>>
    /\ prompt = None
    /\ Call({GLOBAL, CHAT}, {TOOL_EXECUTE_DRAFT},
            {PyDict(EmptyDict), PyDict([confirmed |-> PyBool(TRUE)]), None})
    /\ UNCHANGED <<text, parsed, rules, prompt>>
    /\ UNCHANGED <<listed, storeVars>>

BuildPrompt ==
    /\ rules # <<>>
    /\ calls = <<>>
    /\ prompt = None
    /\ prompt' = PyStr(build_prompt_instructions(rules, GLOBAL))
    /\ UNCHANGED <<text, parsed, rules, calls>>
    /\ UNCHANGED <<listed, storeVars>>

ParserNext == ParseUserRule \/ HoldRule \/ CheckSendCall \/ BuildPrompt

SpecParser == ParserInit /\ [][ParserNext]_vars

\* The rule has this one action, of this type, over the send-tool set.
OneSendAction(rule, type) ==
    /\ Len(rule.actions) = 1
    /\ rule.actions[1].cls = "RuleAction"
    /\ rule.actions[1].type = type
    /\ Get(rule.actions[1].payload, "tools") = PyList(<<PyStr(<<"g","m","a","i","l","_","e","x","e","c","u","t","e","_","d","r","a","f","t">>)>>)

\* C8: "always show draft first before sending" parses to one CONFIRM_TOOL action
\* over the send tools; gmail_execute_draft with {} then requires confirmation,
\* and with {"confirmed": true} is allowed without.
DraftFirstScenario ==
    (text = <<"a","l","w","a","y","s"," ","s","h","o","w"," ","d","r","a","f","t"," ","f","i","r","s","t"," ","b","e","f","o","r","e"," ","s","e","n","d","i","n","g">> /\ parsed # NotParsed) =>
        /\ parsed.t = "RuleParseResult"
        /\ OneSendAction(parsed.v.rule, CONFIRM_TOOL)
        /\ \A i \in 1..Len(calls) :
              /\ calls[i].tool_args = PyDict(EmptyDict)
                    => calls[i].result.value.requires_confirmation = TRUE
              /\ calls[i].tool_args = PyDict([confirmed |-> PyBool(TRUE)])
                    => calls[i].result.value = allow

\* C9: "be concise" parses to PROMPT_INJECT "Be concise.", and the prompt built
\* over that rule is the header followed by the line "- Be concise.".
BeConciseScenario ==
    (text = <<"b","e"," ","c","o","n","c","i","s","e">> /\ parsed # NotParsed) =>
        /\ parsed.t = "RuleParseResult"
        /\ parsed.v.rule.actions = <<RuleAction(PROMPT_INJECT, [text |-> PyStr(<<"B","e"," ","c","o","n","c","i","s","e",".">>)])>>
        /\ (prompt # None /\ rules = <<parsed.v.rule>>)
              => prompt = PyStr(<<"U","S","E","R"," ","R","U","L","E","S"," ","(","m","u","s","t"," ","f","o","l","l","o","w",")",":","\n","-"," ","B","e"," ","c","o","n","c","i","s","e",".","\n">>)

\* The words of a normalized text: its maximal runs without a space.
RECURSIVE Words(_)
Words(t) ==
    IF t = <<>> THEN <<>>
    ELSE LET n == IF \E i \in 1..Len(t) : t[i] = " "
                  THEN (CHOOSE i \in 1..Len(t) : t[i] = " " /\ \A j \in 1..(i - 1) : t[j] # " ") - 1
                  ELSE Len(t)
         IN  (IF n > 0 THEN <<SubSeq(t, 1, n)>> ELSE <<>>) \o Words(SubSeq(t, n + 2, Len(t)))

\* The normalized text starts with a negation token, mentions sending email and
\* holds no confirmation or draft-preview keyword.
NeverSendText(t) ==
    LET ws == Words(t)
    IN  /\ Len(ws) >= 2
        /\ \/ ws[1] \in {<<"n","e","v","e","r">>, <<"d","o","n","t">>, <<"s","t","o","p">>, <<"a","v","o","i","d">>}
           \/ ws[1] = <<"d","o">> /\ ws[2] = <<"n","o","t">>
        /\ Contains(t, <<"s","e","n","d">>) /\ (Contains(t, <<"e","m","a","i","l">>) \/ Contains(t, <<"m","a","i","l">>))
        /\ \A k \in {<<"c","o","n","f","i","r","m">>, <<"c","o","n","f","i","r","m","a","t","i","o","n">>, <<"a","s","k"," ","m","e">>, <<"a","p","p","r","o","v","e">>, <<"a","p","p","r","o","v","a","l">>,
                     <<"s","h","o","w"," ","d","r","a","f","t">>, <<"d","r","a","f","t"," ","f","i","r","s","t">>, <<"p","r","e","v","i","e","w">>, <<"b","e","f","o","r","e"," ","s","e","n","d","i","n","g">>} : ~Contains(t, k)

\* C10: such a text parses to exactly one BLOCK_TOOL action over the send tools,
\* and a rule list holding the rule (parsed for the default scope) refuses
\* gmail_execute_draft in scope GLOBAL whatever the arguments.
NeverSendBlocks ==
    (parsed # NotParsed /\ NeverSendText(_norm(text))) =>
        /\ parsed.t = "RuleParseResult"
        /\ OneSendAction(parsed.v.rule, BLOCK_TOOL)
        /\ parsed.v.rule.enabled
        /\ \A i \in 1..Len(calls) :
              (parsed.v.rule.scope = GLOBAL /\ calls[i].scope = GLOBAL
                    /\ calls[i].tool_name = <<"g","m","a","i","l","_","e","x","e","c","u","t","e","_","d","r","a","f","t">>)
                 => calls[i].result.raised = "" /\ calls[i].result.value.allowed = FALSE

\* "Don't send mail," was parsed, and the call carrying a confirmation flag, with a
\* rule ahead of it that asks to confirm the same tool, was refused.
NeverSendBlocksWitness ==
    /\ text = <<"D","o","n","'","t"," ","s","e","n","d"," ","m","a","i","l",",">>
    /\ NeverSendText(_norm(text))
    /\ parsed.t = "RuleParseResult"
    /\ rules = <<ConfirmRule, parsed.v.rule>>
    /\ calls # <<>>
    /\ Last.scope = GLOBAL
    /\ Last.tool_args = PyDict([confirmed |-> PyBool(TRUE)])
    /\ Last.result.value.allowed = FALSE

(***************************************************************************)
(* The store in one thread, with the failures of the file system           *)
(***************************************************************************)
\* The rule parse_user_rule gives for "never send emails", under id "a".
RuleA == Rule(<<"a">>, TRUE, GLOBAL, <<"n","e","v","e","r"," ","s","e","n","d"," ","e","m","a","i","l","s">>,
              <<RuleAction(BLOCK_TOOL,
                    [tools |-> StrList(Sorted(_SEND_TOOLS)),
                     reason |-> PyStr(<<"U","s","e","r"," ","r","u","l","e",":"," ","n","e","v","e","r"," ","s","e","n","d"," ","e","m","a","i","l","s"," ","a","u","t","o","m","a","t","i","c","a","l","l","y",".">>)])>>, None, None)
\* The rule it gives for "always ask me before sending email" in CHAT, under id "b".
RuleB == Rule(<<"b">>, TRUE, CHAT, <<"a","l","w","a","y","s"," ","a","s","k"," ","m","e"," ","b","e","f","o","r","e"," ","s","e","n","d","i","n","g"," ","e","m","a","i","l">>,
              <<RuleAction(CONFIRM_TOOL,
                    [tools |-> StrList(Sorted(_SEND_TOOLS)),
                     reason |-> PyStr(<<"U","s","e","r"," ","r","u","l","e",":"," ","s","h","o","w"," ","a"," ","d","r","a","f","t"," ","a","n","d"," ","r","e","q","u","i","r","e"," ","c","o","n","f","i","r","m","a","t","i","o","n"," ","b","e","f","o","r","e"," ","s","e","n","d","i","n","g"," ","e","m","a","i","l","s",".">>)])>>,
              None, None)
RuleA2 == Rule(<<"a">>, FALSE, EMAIL, <<"b","e"," ","b","r","i","e","f">>, <<>>, None, None)
RuleC == Rule(<<"c">>, TRUE, EMAIL, <<"b","e"," ","b","r","i","e","f">>,
              <<RuleAction(PROMPT_INJECT, [text |-> PyStr(<<"B","e"," ","b","r","i","e","f",".">>)])>>, None, None)

StoreRules == {RuleA, RuleB, RuleA2}

StoreCalls ==
    {AddRule(rule, save) : rule \in StoreRules, save \in BOOLEAN}
    \cup {SetEnabled(rule_id, enabled, TRUE) : rule_id \in {<<"a">>, <<"b">>}, enabled \in BOOLEAN}
    \cup {Delete(rule_id, TRUE) : rule_id \in {<<"a">>, <<"b">>}}
    \cup {Save}

\* A store as calls with persistence leave it: new on a path that did not
\* exist, where __init__ has saved the empty collection, or after
\* add_rule(RuleC), add_rule(RuleB), add_rule(RuleA) and set_enabled("b", False).
SeedC == add_rule(<<>>, 1, RuleC)
SeedCB == add_rule(SeedC.rules, SeedC.clock + 1, RuleB)
SeedCBA == add_rule(SeedCB.rules, SeedCB.clock + 1, RuleA)
SeedOff == set_enabled(SeedCBA.rules, SeedCBA.clock + 1, <<"b">>, FALSE)

StoreSeeds == {[rules |-> <<>>, clock |-> 0], [rules |-> SeedOff.rules, clock |-> SeedOff.clock]}

\* The store after a successful save() at clock reading seed.clock.
StoreInit ==
    /\ EngineIdle
    /\ \E seed \in StoreSeeds :
          /\ mem = seed.rules
          /\ disk = Written(Payload(_utc_now_iso(seed.clock), seed.rules))
          /\ clock = seed.clock + 1
    /\ ops = 0
    /\ fresh = NotConstructed
    /\ ThreadsIdle

StoreBegin == \E call \in StoreCalls : ops < MaxOps /\ Begin(1, call)

StoreNext ==
    \/ StoreBegin
    \/ CallBody(1)
    \/ IterBegin(1)
    \/ IterEnd(1)
    \/ MkdirOk(1)
    \/ MkdirFail(1)
    \/ MkstempOk(1)
    \/ MkstempFail(1)
    \/ WriteOk(1)
    \/ WriteFail(1)
    \/ FsyncOk(1)
    \/ FsyncFail(1)
    \/ ReplaceOk(1)
    \/ ReplaceFail(1)
    \/ CleanupOk(1)
    \/ CleanupFail(1)
    \/ Restart

SpecStore == StoreInit /\ [][StoreNext]_vars

\* getattr(a, name) on an action: a dict has keys, not attributes.
Attr(a, name) == IF a.cls = "RuleAction" THEN Return(a[name]) ELSE Raise("AttributeError")

\* The file at path is what save() writes for the collection rs.
SavedFrom(rs) ==
    /\ disk.kind = "full"
    /\ disk = Written(Payload(disk.doc.v["updated_at"], rs))

\* Two rules have the same scope, enabled flag and ordered actions, an action
\* being read by its type and its payload.
SameRule(r1, r2) ==
    /\ r1.scope = r2.scope
    /\ r1.enabled = r2.enabled
    /\ Len(r1.actions) = Len(r2.actions)
    /\ \A i \in 1..Len(r1.actions) :
          /\ Attr(r1.actions[i], "type") = Attr(r2.actions[i], "type")
          /\ Attr(r1.actions[i], "payload") = Attr(r2.actions[i], "payload")

\* C3: a fresh RuleStore loaded from the document that save() wrote for a
\* collection holds the same ids and, for each id, the same scope, the same
\* enabled flag and the same ordered actions, each of the same type and payload.
RoundTrip ==
    (fresh.constructed /\ SavedFrom(mem)) =>
        /\ fresh.raised = ""
        /\ Ids(fresh.rules) = Ids(mem)
        /\ \A id \in Ids(mem) :
              SameRule(fresh.rules[IndexOf(fresh.rules, id)], mem[IndexOf(mem, id)])

\* The save of thread t has failed.
SaveFailed(t) == pc[t] = "done" /\ faults[t] \cap WriteSteps # {}

\* Through a call the file at path is whole, and is the file the call found
\* or the payload of the call; a failed save leaves the file it found and
\* raises.
DestinationIntact(t) ==
    /\ disk.kind \in {"absent", "full"}
    /\ pc[t] # "idle" => disk \in {dest_before[t], Written(snap[t])}
    /\ SaveFailed(t) => disk = dest_before[t] /\ ret[t].raised = "OSError"

\* C4 as stated: the file at path is never partial, a failed save leaves it as
\* it was and raises, and after a failed save the temporary file does not exist.
AtomicSave ==
    \A t \in Threads :
        /\ DestinationIntact(t)
        /\ SaveFailed(t) => tmp[t] = Absent

\* C4: the file at path is never partial, a failed save leaves it as it was
\* and raises, and after a failed save the temporary file does not exist
\* unless removing it failed as well.
AtomicSaveBestEffort ==
    \A t \in Threads :
        /\ DestinationIntact(t)
        /\ (SaveFailed(t) /\ "remove" \notin faults[t]) => tmp[t] = Absent

\* add_rule changed the collection, the rename then failed, and the finally
\* clause removed the temporary file.
AtomicSaveBestEffortWitness ==
    /\ SaveFailed(1)
    /\ faults[1] = {"replace"}
    /\ op[1].name = "add_rule"
    /\ ~SavedFrom(mem)
    /\ tmp[1] = Absent
    /\ disk = dest_before[1]
    /\ ret[1].raised = "OSError"

(***************************************************************************)
(* The store under two threads                                             *)
(***************************************************************************)
\* A store that holds rule "c", saved.
ConcSeed == add_rule(<<>>, 1, RuleC)

ConcCalls ==
    {AddRule(RuleA, TRUE), AddRule(RuleB, TRUE), SetEnabled(<<"c">>, FALSE, TRUE),
     Delete(<<"c">>, TRUE), Save}

ConcInit ==
    /\ EngineIdle
    /\ mem = ConcSeed.rules
    /\ disk = Written(Payload(_utc_now_iso(ConcSeed.clock), ConcSeed.rules))
    /\ clock = ConcSeed.clock + 1
    /\ ops = 0
    /\ fresh = NotConstructed
    /\ ThreadsIdle

\* Each thread makes one call.
ConcBegin(t) == \E call \in ConcCalls : pc[t] = "idle" /\ Begin(t, call)

ConcNext ==
    \E t \in Threads :
        \/ ConcBegin(t)
        \/ CallBody(t)
        \/ IterBegin(t)
        \/ IterEnd(t)
        \/ IterRaise(t)
        \/ MkdirOk(t)
        \/ MkstempOk(t)
        \/ WriteOk(t)
        \/ FsyncOk(t)
        \/ ReplaceOk(t)
        \/ CleanupOk(t)

SpecConc == ConcInit /\ [][ConcNext]_vars

\* The collection rs shows the effect of the call.
Reflected(call, rs) ==
    CASE call.name = "add_rule" -> call.rule.id \in Ids(rs)
      [] call.name = "set_enabled" ->
            call.rule_id \in Ids(rs) => rs[IndexOf(rs, call.rule_id)].enabled = call.enabled
      [] call.name = "delete" -> call.rule_id \notin Ids(rs)
      [] OTHER -> TRUE

\* C5: once two concurrent calls of add_rule, set_enabled, delete or save have
\* both returned, the collection in memory shows the effect of both and the
\* document at path is the one save() writes for that collection.
NoLostUpdate ==
    (\A t \in Threads : pc[t] = "done" /\ ret[t].raised = "") =>
        /\ \A t \in Threads : Reflected(op[t], mem)
        /\ SavedFrom(mem)

(***************************************************************************)
(* The store: what its calls leave                                         *)
(***************************************************************************)
\* What is observed of a rule: all but its timestamps.
ObservedKeys == {"id", "enabled", "scope", "raw_text", "actions"}

\* What is observed of the collection in memory.
ObservedMem(rs) == {[k \in ObservedKeys |-> rs[i][k]] : i \in 1..Len(rs)}

\* What is observed of the document in a file that holds one.
ObservedDoc(file) ==
    LET records == file.doc.v["rules"].v
    IN  {[k \in ObservedKeys |-> records[i].v[k]] : i \in 1..Len(records)}

\* Thread t has returned from set_enabled(rule_id, True), called with
\* persistence right after the same call had returned True.
SecondEnable(t) ==
    /\ pc[t] = "done"
    /\ ret[t].raised = ""
    /\ op[t].name = "set_enabled" /\ op[t].enabled /\ op[t].save
    /\ before[t].op = op[t]
    /\ before[t].ret = Return(PyBool(TRUE))

\* C11: set_enabled(id, True) called a second time in a row on an id of the
\* store returns True again and leaves what the first call left: the same ids
\* and, for every rule, the same enabled flag, scope, raw_text and actions, in
\* memory and in the document.
SetEnabledIdempotent ==
    \A t \in Threads :
        SecondEnable(t) =>
            /\ ret[t] = Return(PyBool(TRUE))
            /\ ObservedMem(mem) = ObservedMem(before[t].mem)
            /\ disk.kind = "full" /\ dest_before[t].kind = "full"
            /\ ObservedDoc(disk) = ObservedDoc(dest_before[t])

\* Rule "b", disabled before, has been enabled by the first of two calls.
SetEnabledIdempotentWitness ==
    /\ SecondEnable(1)
    /\ op[1].rule_id = <<"b">>
    /\ ops = 2
    /\ Len(mem) = 3
    /\ mem[IndexOf(mem, <<"b">>)].enabled
    /\ faults[1] = {}

(***************************************************************************)
(* The store read per request: list_rules, then the engine                 *)
(***************************************************************************)
Member(m) == [t |-> "RuleScope", v |-> m]

\* The arguments of list_rules: the scope absent, a member, the value of a
\* member as a str, or a str that is the value of none.
ListArgs ==
    {[scope |-> scope, enabled_only |-> FALSE] :
        scope \in {None, Member(GLOBAL), Member(CHAT), Member(EMAIL), PyStr(<<"c","h","a","t">>), PyStr(<<"i","n","b","o","x">>)}}
    \cup {[scope |-> scope, enabled_only |-> TRUE] : scope \in {None, Member(CHAT)}}

\* Changes of the collection between requests, made without persistence.
ListCalls == {AddRule(RuleA2, FALSE), SetEnabled(<<"b">>, TRUE, FALSE), Delete(<<"c">>, FALSE)}

ListBegin == \E call \in ListCalls : ops < MaxOps /\ Begin(1, call)

\* list_rules(scope, enabled_only) between two calls that change the store;
\* the list it returns is the one handed to the engine.  listed keeps the
\* last two calls, each with the collection it read (of) and the number of
\* store calls begun before it (at).
ListRules ==
    /\ pc[1] \in {"idle", "done"}
    /\ calls = <<>>
    /\ \E args \in ListArgs :
          LET result == list_rules(mem, args.scope, args.enabled_only)
              entry == [scope |-> args.scope, enabled_only |-> args.enabled_only, of |-> mem,
                        at |-> ops, result |-> result]
          IN  /\ listed' = IF listed = <<>> THEN <<entry>> ELSE <<listed[Len(listed)], entry>>
              /\ rules' = IF result.raised = "" THEN result.value ELSE rules
    /\ UNCHANGED <<calls, text, parsed, prompt>>
    /\ UNCHANGED storeVars

\* check_tool_call(store.list_rules(S), S, tool, {}) for the scope S just listed.
CheckListed ==
    /\ calls = <<>>
    /\ listed # <<>>
    /\ LET l == listed[Len(listed)]
       IN  /\ l.scope.t = "RuleScope"
           /\ l.result.raised = ""
           /\ Call({l.scope.v}, {TOOL_EXECUTE_DRAFT, TOOL_FORWARD_EMAIL}, {PyDict(EmptyDict)})
    /\ UNCHANGED <<rules, text, parsed, prompt, listed>>
    /\ UNCHANGED storeVars

ListNext ==
    \/ ListBegin
    \/ CallBody(1)
    \/ ListRules
    \/ CheckListed

SpecList == StoreInit /\ [][ListNext]_vars

\* The member a scope argument stands for.
ScopeOfArg(scope) ==
    IF scope.t = "RuleScope" THEN scope.v ELSE CHOOSE m \in RuleScope : EnumValue(m) = scope.v

\* C12: list_rules returns its rules in ascending order of id; with a scope it
\* returns exactly the rules of that very scope, with enabled_only only enabled
\* ones; and two calls with the same arguments and no change of the store
\* between them return the same sequence.
ListRulesContract ==
    \A i \in 1..Len(listed) :
        LET l == listed[i]
            res == l.result.value
            Wanted(r) == /\ (l.scope # None => r.scope = ScopeOfArg(l.scope))
                         /\ (l.enabled_only => r.enabled)
        IN  l.result.raised = "" =>
                /\ \A j \in 1..Len(res), k \in 1..Len(res) : j < k => StrLess(res[j].id, res[k].id)
                /\ {res[j] : j \in 1..Len(res)} = {l.of[j] : j \in {n \in 1..Len(l.of) : Wanted(l.of[n])}}
                /\ \A j \in 1..Len(listed) :
                      (/\ listed[j].scope = l.scope
                       /\ listed[j].enabled_only = l.enabled_only
                       /\ listed[j].at = l.at) => listed[j].result = l.result

\* list_rules(CHAT) was called twice on a store that holds, in the order c, b,
\* a, an enabled GLOBAL rule and an enabled CHAT rule, and gave the CHAT rule
\* alone; before that list_rules() gave the three rules in the order a, b, c.
ListRulesContractWitness ==
    /\ Len(listed) = 2
    /\ listed[1].scope = Member(CHAT) /\ listed[2].scope = Member(CHAT)
    /\ ~listed[1].enabled_only /\ ~listed[2].enabled_only
    /\ listed[1].at = listed[2].at
    /\ Len(mem) = 3 /\ mem[1].id = <<"c">> /\ mem[3].id = <<"a">>
    /\ mem[3].scope = GLOBAL /\ mem[3].enabled /\ mem[2].enabled
    /\ Len(listed[2].result.value) = 1
    /\ listed[2].result.value[1].id = <<"b">>
    /\ list_rules(mem, None, FALSE).value[1].id = <<"a">>

(***************************************************************************)
(* load() on documents with malformed records                              *)
(***************************************************************************)
MaxRecords == 3

\* d without the key k
Without(d, k) == [x \in DOMAIN d \ {k} |-> d[x]]

\* Records of a document: two that save() wrote, one with an id only, one
\* without id, one whose scope is the value of no member (and whose id is that
\* of a well-formed one), and two that are not objects.
LoadRecords ==
    {_rule_to_dict(RuleA), _rule_to_dict(RuleB), PyDict([id |-> PyStr(<<"m">>)]),
     PyDict(Without(_rule_to_dict(RuleA).v, "id")),
     PyDict([_rule_to_dict(RuleB).v EXCEPT !["scope"] = PyStr(<<"i","n","b","o","x">>), !["enabled"] = PyBool(FALSE)]),
     PyStr(<<"a">>), PyInt(7)}

\* A document: {"version", "updated_at", "rules": [...]} or the bare list.
LoadInit ==
    /\ EngineIdle
    /\ mem = <<>>
    /\ \E records \in SeqsUpTo(LoadRecords, MaxRecords), bare \in BOOLEAN :
          disk = Written(IF bare THEN PyList(records)
                         ELSE PyDict([version |-> PyInt(1), updated_at |-> _utc_now_iso(0),
                                      rules |-> PyList(records)]))
    /\ clock = 1
    /\ ops = 0
    /\ fresh = NotConstructed
    /\ ThreadsIdle

LoadNext == Restart

SpecLoad == LoadInit /\ [][LoadNext]_vars

\* The records of the document in the file.
RecordsOf(file) == IF file.doc.t = "list" THEN file.doc.v ELSE file.doc.v["rules"].v

\* A record is an object with an id and, if it has a scope, the value of a member.
WellFormed(rec) ==
    /\ rec.t = "dict"
    /\ "id" \in DOMAIN rec.v
    /\ "scope" \in DOMAIN rec.v => rec.v["scope"] \in {PyStr(<<"g","l","o","b","a","l">>), PyStr(<<"c","h","a","t">>), PyStr(<<"e","m","a","i","l">>)}

RECURSIVE IsSubseq(_, _)
IsSubseq(a, b) ==
    IF a = <<>> THEN TRUE
    ELSE IF b = <<>> THEN FALSE
    ELSE IF Head(a) = Head(b) THEN IsSubseq(Tail(a), Tail(b))
    ELSE IsSubseq(a, Tail(b))

\* Rule r is enabled and its scope is GLOBAL or S.
Applies(r, S) == r.enabled /\ r.scope \in {GLOBAL, S}

\* C14: filter_rules_for_scope(R, S) is, in the order of R, the enabled rules
\* of R whose scope is GLOBAL or S: an enabled GLOBAL rule is in it for every
\* S, a disabled rule never, and a CHAT rule not for EMAIL nor an EMAIL rule
\* for CHAT.
FilterKeepsApplicable ==
    \A n \in 1..Len(calls) :
        LET S == calls[n].scope
            out == calls[n].ctx.rules
        IN  /\ IsSubseq(out, rules)
            /\ \A i \in 1..Len(out) : Applies(out[i], S)
            /\ Len(out) = Cardinality({i \in 1..Len(rules) : Applies(rules[i], S)})
            /\ \A i \in 1..Len(rules) :
                  /\ (rules[i].enabled /\ rules[i].scope = GLOBAL) => \E j \in 1..Len(out) : out[j] = rules[i]
                  /\ ~rules[i].enabled => \A j \in 1..Len(out) : out[j] # rules[i]
            /\ \A j \in 1..Len(out) :
                  /\ S = EMAIL => out[j].scope # CHAT
                  /\ S = CHAT => out[j].scope # EMAIL

\* A check for EMAIL on an enabled CHAT rule followed by an enabled GLOBAL
\* rule kept the GLOBAL rule alone.
FilterKeepsApplicableWitness ==
    /\ Len(calls) = 1
    /\ calls[1].scope = EMAIL
    /\ Len(rules) = 2
    /\ rules[1].enabled /\ rules[1].scope = CHAT
    /\ rules[2].enabled /\ rules[2].scope = GLOBAL
    /\ calls[1].ctx.rules = <<rules[2]>>

\* The payloads of tool actions whose reason is missing, empty, blank or set,
\* on rules whose raw_text is empty, blank or set.
ReasonPayloads ==
    { [tools |-> PyList(<<PyStr(TOOL_EXECUTE_DRAFT)>>)] }
    \cup { [tools |-> PyList(<<PyStr(TOOL_EXECUTE_DRAFT)>>), reason |-> PyStr(reason)] :
            reason \in {<<>>, <<" ">>, <<" ","w","h","y"," ">>} }

ReasonRules ==
    { Rule(<<"r">>, TRUE, GLOBAL, raw_text, <<RuleAction(type, payload)>>, None, None) :
        raw_text \in {<<>>, <<" ">>, <<"n","e","v","e","r"," ","s","e","n","d">>},
        type \in {BLOCK_TOOL, CONFIRM_TOOL},
        payload \in ReasonPayloads }

ReasonInit ==
    /\ rules \in SeqsUpTo(ReasonRules, MaxRules)
    /\ calls = <<>>
    /\ text = <<>>
    /\ parsed = NotParsed
    /\ prompt = None
    /\ StoreIdle

ReasonCall ==
    /\ calls = <<>>
    /\ Call({CHAT}, {TOOL_EXECUTE_DRAFT}, {None})
    /\ UNCHANGED <<rules, text, parsed, prompt, listed, storeVars>>

ReasonNext == ReasonCall

SpecReason == ReasonInit /\ [][ReasonNext]_vars

\* The reason that the resolution order gives the one action of rule r: its
\* payload reason when that is a non-blank string, else the raw_text of r when
\* that is not blank, else the default.
StatedReason(r) ==
    LET given == Get(r.actions[1].payload, "reason")
    IN  IF IsStr(given) /\ Strip(given.v) # <<>> THEN Strip(given.v)
        ELSE IF Strip(r.raw_text) # <<>> THEN Strip(r.raw_text)
        ELSE DEFAULT_BLOCK_REASON

\* The first of the rules rs that has an action of the type.
FirstOfType(rs, type) ==
    rs[CHOOSE i \in 1..Len(rs) :
            /\ rs[i].actions[1].type = type
            /\ \A j \in 1..(i - 1) : rs[j].actions[1].type # type]

\* C15: the reason recorded for a tool that a BLOCK_TOOL or CONFIRM_TOOL action
\* names is the payload reason of the action when that is present and not
\* blank, otherwise the raw_text of the rule when that is not blank, otherwise
\* the default string.
ReasonResolution ==
    \A n \in 1..Len(calls) :
        LET ctx == calls[n].ctx
        IN  /\ TOOL_EXECUTE_DRAFT \in ctx.blocked_tools =>
                  ctx.blocked_reasons[TOOL_EXECUTE_DRAFT] = StatedReason(FirstOfType(ctx.rules, BLOCK_TOOL))
            /\ TOOL_EXECUTE_DRAFT \in ctx.confirm_tools =>
                  ctx.confirm_reasons[TOOL_EXECUTE_DRAFT] = StatedReason(FirstOfType(ctx.rules, CONFIRM_TOOL))

\* Texts at the length limit of the fallback: as long as the limit, one longer,
\* and as long as the limit between two blanks.
AtLimit == [i \in 1..FALLBACK_MAX_LEN |-> "x"]
OverLimit == [i \in 1..(FALLBACK_MAX_LEN + 1) |-> "x"]
PaddedAtLimit == <<" ">> \o AtLimit \o <<" ">>

\* Rules whose raw_text is around the limit, empty or short, without actions,
\* with an injected text that is set or blank, or with a tool action; one for
\* another scope and one disabled.
PromptRules ==
    { Rule(<<"r">>, TRUE, GLOBAL, raw_text, <<>>, None, None) :
        raw_text \in {AtLimit, OverLimit, PaddedAtLimit, <<"b","e"," ","b","r","i","e","f">>, <<>>} }
    \cup { Rule(<<"r">>, TRUE, GLOBAL, <<"b","e"," ","b","r","i","e","f">>, <<RuleAction(PROMPT_INJECT, [text |-> PyStr(<<" ","B","e"," ","b","r","i","e","f","."," ">>)])>>, None, None),
            Rule(<<"r">>, TRUE, GLOBAL, AtLimit, <<RuleAction(PROMPT_INJECT, [text |-> PyStr(<<" ">>)])>>, None, None),
            Rule(<<"r">>, TRUE, GLOBAL, <<"n","e","v","e","r"," ","s","e","n","d">>,
                 <<RuleAction(BLOCK_TOOL, [tools |-> PyList(<<PyStr(TOOL_EXECUTE_DRAFT)>>)])>>, None, None),
            Rule(<<"r">>, TRUE, GLOBAL, <<"a","s","k"," ","f","i","r","s","t">>,
                 <<RuleAction(PROMPT_INJECT, [text |-> PyStr(<<" ">>)]),
                   RuleAction(CONFIRM_TOOL, [tools |-> PyList(<<PyStr(TOOL_EXECUTE_DRAFT)>>)])>>, None, None),
            Rule(<<"r">>, TRUE, EMAIL, <<"s","i","g","n"," ","o","f","f">>, <<>>, None, None),
            Rule(<<"r">>, FALSE, GLOBAL, <<"b","e"," ","k","i","n","d">>, <<>>, None, None) }

PromptInit ==
    /\ rules \in SeqsUpTo(PromptRules, MaxRules)
    /\ calls = <<>>
    /\ text = <<>>
    /\ parsed = NotParsed
    /\ prompt = None
    /\ StoreIdle

\* One call of build_prompt_instructions on the rule list.
BuildInstructions ==
    /\ prompt = None
    /\ \E scope \in {CHAT, EMAIL} :
          /\ prompt' = PyStr(build_prompt_instructions(rules, scope))
          /\ calls' = <<[scope |-> scope, tool_name |-> <<>>, tool_args |-> None,
                         result |-> Return(None), ctx |-> collect_effective_rules(rules, scope)]>>
    /\ UNCHANGED <<rules, text, parsed, listed, storeVars>>

PromptNext == BuildInstructions

SpecPrompt == PromptInit /\ [][PromptNext]_vars

\* The non-blank PROMPT_INJECT texts of rule r, stripped, in action order.
InjectedTexts(r) ==
    LET Of(a) ==
            IF a.type = PROMPT_INJECT /\ "text" \in DOMAIN a.payload
               /\ IsStr(a.payload["text"]) /\ Strip(a.payload["text"].v) # <<>>
            THEN <<Strip(a.payload["text"].v)>> ELSE <<>>
    IN  FlatMap(Of, r.actions)

HasToolAction(r) == \E j \in 1..Len(r.actions) : r.actions[j].type \in {BLOCK_TOOL, CONFIRM_TOOL}

\* The header and one "- " line per instruction, or nothing without lines.
RECURSIVE Bulleted(_)
Bulleted(lines) ==
    IF lines = <<>> THEN <<>> ELSE <<"-"," ">> \o Head(lines) \o <<"\n">> \o Bulleted(Tail(lines))

Block(lines) == IF lines = <<>> THEN <<>> ELSE PROMPT_HEADER \o Bulleted(lines)

\* The instructions of the effective rules when the fallback takes a raw_text
\* of at most FALLBACK_MAX_LEN characters.
StatedLines(effective) ==
    LET Of(r) ==
            IF InjectedTexts(r) # <<>> THEN InjectedTexts(r)
            ELSE IF Strip(r.raw_text) # <<>> /\ Len(r.raw_text) <= FALLBACK_MAX_LEN /\ ~HasToolAction(r)
                 THEN <<Strip(r.raw_text)>>
            ELSE <<>>
    IN  FlatMap(Of, effective)

\* The same when the fallback takes a raw_text that has, without the white space
\* around it, at most FALLBACK_MAX_LEN characters.
StrippedLines(effective) ==
    LET Of(r) ==
            IF InjectedTexts(r) # <<>> THEN InjectedTexts(r)
            ELSE IF Strip(r.raw_text) # <<>> /\ Len(Strip(r.raw_text)) <= FALLBACK_MAX_LEN /\ ~HasToolAction(r)
                 THEN <<Strip(r.raw_text)>>
            ELSE <<>>
    IN  FlatMap(Of, effective)

\* C16 as stated: the raw_text of a rule is an instruction line only when the
\* rule is effective, gave no non-blank PROMPT_INJECT text, has a raw_text of at
\* most 200 characters and no BLOCK_TOOL or CONFIRM_TOOL action; the output is
\* empty without lines and otherwise the header and one "- " line per
\* instruction, in the order of the effective rules.
PromptFallbackByLength ==
    prompt # None => prompt.v = Block(StatedLines(calls[1].ctx.rules))

\* C16: the raw_text of a rule is an instruction line, without the white space
\* around it, only when the rule is effective, gave no non-blank PROMPT_INJECT
\* text, has a raw_text that is not blank and has at most 200 characters once
\* the white space around it is removed, and no BLOCK_TOOL or CONFIRM_TOOL
\* action; the raw_text of a tool-gating rule is never a line; the output is
\* empty without lines and otherwise the header and one "- " line per
\* instruction, in the order of the effective rules.
PromptFallback ==
    prompt # None =>
        /\ prompt.v = Block(StrippedLines(calls[1].ctx.rules))
        /\ prompt.v = calls[1].ctx.prompt_instructions
        /\ \A i \in 1..Len(rules) :
              HasToolAction(rules[i]) =>
                  \A k \in 1..Len(StrippedLines(calls[1].ctx.rules)) :
                      StrippedLines(calls[1].ctx.rules)[k] # Strip(rules[i].raw_text)

\* A prompt built for CHAT from a rule whose raw_text is longer than 200
\* characters with the blanks around it: the line is the 200 characters.
PromptFallbackWitness ==
    /\ prompt # None
    /\ calls[1].scope = CHAT
    /\ rules = <<Rule(<<"r">>, TRUE, GLOBAL, PaddedAtLimit, <<>>, None, None)>>
    /\ prompt.v = PROMPT_HEADER \o <<"-"," ">> \o AtLimit \o <<"\n">>

(***************************************************************************)
(* The store and the engine together                                       *)
(***************************************************************************)
\* Rule r is an enabled GLOBAL rule with a BLOCK_TOOL action that names the tool.
GlobalBlockOf(r, tool_name) ==
    /\ r.enabled
    /\ r.scope = GLOBAL
    /\ \E j \in 1..Len(r.actions) :
          /\ r.actions[j].type = BLOCK_TOOL
          /\ \E k \in 1..Len(ActionTools(r.actions[j])) : ActionTools(r.actions[j])[k].v = tool_name

\* C17: when the engine is given list_rules(S) for the request scope S, an
\* enabled GLOBAL rule that the store holds is enforced for every S:
\* check_tool_call(list_rules(S), S, tool, {}) blocks a tool the rule blocks.
GlobalRuleEnforced ==
    \A n \in 1..Len(calls) :
        LET l == listed[Len(listed)]
        IN  (/\ l.scope = Member(calls[n].scope)
             /\ rules = l.result.value
             /\ \E i \in 1..Len(l.of) : GlobalBlockOf(l.of[i], calls[n].tool_name))
            => /\ calls[n].result.raised = ""
               /\ ~calls[n].result.value.allowed

(***************************************************************************)
(* The store: memory and document after a call                             *)
(***************************************************************************)
\* The ids of a collection in memory, each with its enabled flag.
FlagsOfMem(rs) == {[id |-> rs[i].id, enabled |-> rs[i].enabled] : i \in 1..Len(rs)}

\* The same of the document in a file; a file that does not exist holds no rule.
FlagsOfDoc(file) ==
    IF file.kind # "full" THEN {}
    ELSE LET records == file.doc.v["rules"].v
         IN  {[id |-> records[i].v["id"].v, enabled |-> records[i].v["enabled"].v] : i \in 1..Len(records)}

\* Thread t is back from add_rule, set_enabled or delete with persistence,
\* which it had called when memory and document agreed.
BackFromSaving(t) ==
    /\ pc[t] = "done"
    /\ op[t].name \in {"add_rule", "set_enabled", "delete"}
    /\ op[t].save
    /\ FlagsOfMem(before[t].mem) = FlagsOfDoc(dest_before[t])

\* C18: after add_rule, set_enabled or delete with persistence, returned or
\* raised, the collection in memory and the document hold the same ids and
\* enabled flags; when the save failed, the collection in memory is the one
\* from before the call.
MemoryMatchesDocument ==
    \A t \in Threads :
        BackFromSaving(t) =>
            /\ FlagsOfMem(mem) = FlagsOfDoc(disk)
            /\ SaveFailed(t) => mem = before[t].mem

(***************************************************************************)
(* The store and the engine across a restart                               *)
(***************************************************************************)
\* C19: a fresh RuleStore on the document of a store that holds rules with
\* BLOCK_TOOL or CONFIRM_TOOL actions, added with persistence, gives through
\* list_rules() a list for which check_tool_call decides, for every scope,
\* tool and tool_args, as it does for the list of the store that wrote it.
EnforcementSurvivesRestart ==
    (/\ fresh.constructed
     /\ fresh.raised = ""
     /\ SavedFrom(mem)
     /\ \E i \in 1..Len(mem) : \E j \in 1..Len(mem[i].actions) :
            mem[i].actions[j].type \in {BLOCK_TOOL, CONFIRM_TOOL})
    => \A scope \in Scopes, tool_name \in {TOOL_EXECUTE_DRAFT, TOOL_FORWARD_EMAIL},
          tool_args \in {None, PyDict(EmptyDict), PyDict([confirmed |-> PyBool(TRUE)])} :
            check_tool_call(list_rules(fresh.rules, None, FALSE).value, scope, tool_name, tool_args)
                = check_tool_call(list_rules(mem, None, FALSE).value, scope, tool_name, tool_args)

====
